---- MODULE Spec2Model ----
(***************************************************************************)
(* Gatekeeper: the GK per-flow decision engine (gk/main.c) and the parts   *)
(* of the LLS front end it calls (lls/main.c).                             *)
(*                                                                         *)
(* Two specifications share the operators that model the C functions:      *)
(*   Spec      the gk_proc loop of one GK worker with its mailbox, its     *)
(*             receive and transmit bursts and a policy producer;          *)
(*   SpecFlow  the per-packet body and the per-command body of that loop   *)
(*             applied in any order to a flow table, with a wide range of  *)
(*             clock readings, packet lengths and policies.                *)
(***************************************************************************)
EXTENDS Integers, Sequences, FiniteSets, TLC

(***************************************************************************)
(* uint64_t arithmetic.  A uint64_t is a triple of limbs, least            *)
(* significant first, of 22, 22 and 20 bits, so that sums, differences and *)
(* products wrap modulo 2^64 exactly as they do in C.                      *)
(***************************************************************************)
Limb == 4194304
TopLimb == 1048576

\* The uint64_t with value n, 0 <= n < 2^31.
U64(n) == <<n % Limb, n \div Limb, 0>>

\* Carry propagation over three limb sums, truncated at 64 bits.
Carry3(s0, s1, s2) ==
    <<s0 % Limb,
      (s1 + s0 \div Limb) % Limb,
      (s2 + (s1 + s0 \div Limb) \div Limb) % TopLimb>>

Add64(a, b) == Carry3(a[1] + b[1], a[2] + b[2], a[3] + b[3])

\* a - b modulo 2^64 (a plus the two's complement of b).
Sub64(a, b) ==
    Carry3(a[1] + (Limb - 1 - b[1]) + 1,
           a[2] + (Limb - 1 - b[2]),
           a[3] + (TopLimb - 1 - b[3]))

\* a * m modulo 2^64, for a factor 0 <= m < 512.
Mul64(a, m) == Carry3(a[1] * m, a[2] * m, a[3] * m)

Lt64(a, b) ==
    IF a[3] # b[3] THEN a[3] < b[3]
    ELSE IF a[2] # b[2] THEN a[2] < b[2]
    ELSE a[1] < b[1]

Geq64(a, b) == ~Lt64(a, b)
Leq64(a, b) == ~Lt64(b, a)

\* Number of significant bits of one limb.
RECURSIVE BitLen(_)
BitLen(v) == IF v = 0 THEN 0 ELSE 1 + BitLen(v \div 2)

\* __builtin_clzl on a non-zero 64-bit value: the number of leading zeros.
clz64(d) ==
    64 - (IF d[3] # 0 THEN 44 + BitLen(d[3])
          ELSE IF d[2] # 0 THEN 22 + BitLen(d[2])
          ELSE BitLen(d[1]))

(***************************************************************************)
(* int (32-bit) arithmetic of the budget: x * 1024 for an int x.  When the *)
(* product does not fit an int the behaviour is undefined: a build either  *)
(* goes on with what the multiplication instruction leaves, the low 32     *)
(* bits of the product read as signed (MulInt1024), or traps and ends the  *)
(* process (a build that checks signed overflow).  The operators report    *)
(* the overflow in the field ovf of their result and the actions choose.   *)
(***************************************************************************)
IntMin == (-2147483647) - 1

IntOverflows1024(x) == x < -2097152 \/ x > 2097151

MulInt1024(x) ==
    ((x % 2097152) * 1024) + (IF (x \div 2097152) % 2 = 1 THEN IntMin ELSE 0)

(***************************************************************************)
(* Constants of gk/main.c and of the clock calibration.                    *)
(***************************************************************************)
START_PRIORITY == 38
START_ALLOWANCE == 8
PRIORITY_GRANTED == 1
PRIORITY_RENEW_CAP == 2
PRIORITY_MAX == 63
GK_CMD_BURST_SIZE == 32

\* A 2 GHz time-stamp counter: the three globals the calibration sets.
cycles_per_sec == U64(2000000000)
cycles_per_ms == U64(2000000)
picosec_per_cycle == 500

Zero64 == U64(0)

(***************************************************************************)
(* struct flow_entry.  Of the union u only the member of the current       *)
(* state is kept, the fields of the other members are held at zero: the    *)
(* code never reads a member of another state, and on every change of      *)
(* state it writes each field of the new member that it later reads        *)
(* (initialize_flow_entry and reinitialize_flow_entry write all of         *)
(* u.request, add_ggu_policy all of u.granted but grantor_id, or           *)
(* u.declined.expire_at).  grantor_id is a constant 0 and is left out.     *)
(***************************************************************************)
NoFlow == "none"

\* One slot of the rte_calloc'ed ip_flow_entry_table before its first use.
ZeroEntry ==
    [flow |-> NoFlow, state |-> "GK_REQUEST",
     last_packet_seen_at |-> Zero64, last_priority |-> 0, allowance |-> 0,
     cap_expire_at |-> Zero64, budget_renew_at |-> Zero64,
     tx_rate_kb_cycle |-> 0, budget_byte |-> 0,
     send_next_renewal_at |-> Zero64, renewal_step_cycle |-> Zero64,
     expire_at |-> Zero64]

\* A faulty variant: the bit width instead of the index of the top bit.
integer_log_base_2_off(delta_time) == (8 * 8) - clz64(delta_time)

integer_log_base_2(delta_time) == (8 * 8 - 1) - clz64(delta_time)

\* delta_time of priority_from_delta_time (line 153).
DeltaTime(present, past) == Mul64(Sub64(present, past), picosec_per_cycle)

priority_from_delta_time(present, past) ==
    IF Lt64(present, past) THEN 0
    ELSE IF DeltaTime(present, past) = Zero64 THEN 0
    ELSE integer_log_base_2(DeltaTime(present, past))

\* A faulty variant: the allowance starts at START_ALLOWANCE.
initialize_flow_entry_full(fe_, flow, rdtsc) ==
    [ZeroEntry EXCEPT !.flow = flow,
                !.state = "GK_REQUEST",
                !.last_packet_seen_at = rdtsc,
                !.last_priority = START_PRIORITY,
                !.allowance = START_ALLOWANCE]

\* rdtsc is the value rte_rdtsc() returns inside the function.
initialize_flow_entry(fe_, flow, rdtsc) ==
    [ZeroEntry EXCEPT !.flow = flow,
                !.state = "GK_REQUEST",
                !.last_packet_seen_at = rdtsc,
                !.last_priority = START_PRIORITY,
                !.allowance = START_ALLOWANCE - 1]

\* A faulty variant: the re-initialized entry starts at priority 0.
reinitialize_flow_entry_zero(fe_, now) ==
    [ZeroEntry EXCEPT !.flow = fe_.flow,
                !.state = "GK_REQUEST",
                !.last_packet_seen_at = now,
                !.last_priority = 0,
                !.allowance = START_ALLOWANCE - 1]

reinitialize_flow_entry(fe_, now) ==
    [ZeroEntry EXCEPT !.flow = fe_.flow,
                !.state = "GK_REQUEST",
                !.last_packet_seen_at = now,
                !.last_priority = START_PRIORITY,
                !.allowance = START_ALLOWANCE - 1]

(***************************************************************************)
(* The three classification functions.  Each returns the entry as it       *)
(* leaves it, its return value ret, how often it freed the buffer, whether *)
(* it called encapsulate and with which priority (dscp), and the values    *)
(* of its locals that the properties below refer to (req: the packet went  *)
(* through gk_process_request, req_in: the entry it was given, now_req:    *)
(* its clock reading, prio: the priority priority_from_delta_time          *)
(* returned, delta0: delta_time < 1, override: the allowance branch was    *)
(* taken, reinit: the entry was re-initialized first).                     *)
(* enc is the value encapsulate returns.                                   *)
(***************************************************************************)
\* A faulty variant: no clamp.
ClampNone(priority) == priority

Clamp(priority) == IF priority > PRIORITY_MAX THEN PRIORITY_MAX ELSE priority

\* A faulty variant: the allowance branch does not consume the allowance.
gk_process_request_keep(fe_, now, enc) ==
    LET priority == priority_from_delta_time(now, fe_.last_packet_seen_at)
        seen == [fe_ EXCEPT !.last_packet_seen_at = now]
        override == priority < fe_.last_priority /\ fe_.allowance > 0
        fe1 == IF override
               THEN seen
               ELSE [seen EXCEPT !.last_priority = priority,
                                 !.allowance = START_ALLOWANCE - 1]
        used == IF override THEN fe_.last_priority ELSE priority
    IN  [fe |-> fe1, ret |-> enc, freed |-> 0, encap |-> TRUE,
         dscp |-> Clamp(used + 3), prio |-> priority, override |-> override,
         delta0 |-> DeltaTime(now, fe_.last_packet_seen_at) = Zero64,
         reinit |-> FALSE, req |-> TRUE, req_in |-> fe_, now_req |-> now,
         ovf |-> FALSE]

\* A faulty variant: the comparison with last_priority is not strict, so a
\* packet of equal priority consumes allowance.
gk_process_request_not_strict(fe_, now, enc) ==
    LET priority == priority_from_delta_time(now, fe_.last_packet_seen_at)
        seen == [fe_ EXCEPT !.last_packet_seen_at = now]
        override == priority <= fe_.last_priority /\ fe_.allowance > 0
        fe1 == IF override
               THEN [seen EXCEPT !.allowance = @ - 1]
               ELSE [seen EXCEPT !.last_priority = priority,
                                 !.allowance = START_ALLOWANCE - 1]
        used == IF override THEN fe_.last_priority ELSE priority
    IN  [fe |-> fe1, ret |-> enc, freed |-> 0, encap |-> TRUE,
         dscp |-> Clamp(used + 3), prio |-> priority, override |-> override,
         delta0 |-> DeltaTime(now, fe_.last_packet_seen_at) = Zero64,
         reinit |-> FALSE, req |-> TRUE, req_in |-> fe_, now_req |-> now,
         ovf |-> FALSE]

gk_process_request(fe_, now, enc) ==
    LET priority == priority_from_delta_time(now, fe_.last_packet_seen_at)
        seen == [fe_ EXCEPT !.last_packet_seen_at = now]
        override == priority < fe_.last_priority /\ fe_.allowance > 0
        fe1 == IF override
               THEN [seen EXCEPT !.allowance = @ - 1]
               ELSE [seen EXCEPT !.last_priority = priority,
                                 !.allowance = START_ALLOWANCE - 1]
        used == IF override THEN fe_.last_priority ELSE priority
    IN  [fe |-> fe1, ret |-> enc, freed |-> 0, encap |-> TRUE,
         dscp |-> Clamp(used + 3), prio |-> priority, override |-> override,
         delta0 |-> DeltaTime(now, fe_.last_packet_seen_at) = Zero64,
         reinit |-> FALSE, req |-> TRUE, req_in |-> fe_, now_req |-> now,
         ovf |-> FALSE]

\* A faulty variant: the renewal moves budget_renew_at but leaves budget_byte.
gk_process_granted_stale(fe_, data_len, now, now2, enc) ==
    IF Geq64(now, fe_.cap_expire_at)
    THEN [gk_process_request(reinitialize_flow_entry(fe_, now), now2, enc)
            EXCEPT !.reinit = TRUE]
    ELSE LET fe1 == IF Geq64(now, fe_.budget_renew_at)
                    THEN [fe_ EXCEPT
                            !.budget_renew_at = Add64(now, cycles_per_sec)]
                    ELSE fe_
             renew_cap == Geq64(now, fe1.send_next_renewal_at)
         IN  IF data_len > fe1.budget_byte
             THEN \* drop_packet: the buffer is freed and 0 is returned.
                  [fe |-> fe1, ret |-> 0, freed |-> 1, encap |-> FALSE,
                   dscp |-> 0, prio |-> 0, override |-> FALSE,
                   delta0 |-> FALSE, reinit |-> FALSE, req |-> FALSE,
                   req_in |-> ZeroEntry, now_req |-> Zero64, ovf |-> FALSE]
             ELSE [fe |-> [fe1 EXCEPT
                            !.budget_byte = @ - data_len,
                            !.send_next_renewal_at =
                                IF renew_cap
                                THEN Add64(now, fe1.renewal_step_cycle)
                                ELSE @],
                   ret |-> enc, freed |-> 0, encap |-> TRUE,
                   dscp |-> IF renew_cap THEN PRIORITY_RENEW_CAP
                            ELSE PRIORITY_GRANTED,
                   prio |-> 0, override |-> FALSE,
                   delta0 |-> FALSE, reinit |-> FALSE, req |-> FALSE,
                   req_in |-> ZeroEntry, now_req |-> Zero64, ovf |-> FALSE]

\* A faulty variant: the budget is renewed and tested before the expiry of
\* the capability.
gk_process_granted_budget_first(fe_, data_len, now, now2, enc) ==
    LET fe1 == IF Geq64(now, fe_.budget_renew_at)
               THEN [fe_ EXCEPT
                       !.budget_renew_at = Add64(now, cycles_per_sec),
                       !.budget_byte = MulInt1024(fe_.tx_rate_kb_cycle)]
               ELSE fe_
        renew_cap == Geq64(now, fe1.send_next_renewal_at)
        ovf == /\ Geq64(now, fe_.budget_renew_at)
               /\ IntOverflows1024(fe_.tx_rate_kb_cycle)
    IN  IF data_len > fe1.budget_byte
        THEN [fe |-> fe1, ret |-> 0, freed |-> 1, encap |-> FALSE,
              dscp |-> 0, prio |-> 0, override |-> FALSE,
              delta0 |-> FALSE, reinit |-> FALSE, req |-> FALSE,
              req_in |-> ZeroEntry, now_req |-> Zero64, ovf |-> ovf]
        ELSE IF Geq64(now, fe_.cap_expire_at)
        THEN [gk_process_request(reinitialize_flow_entry(fe_, now), now2, enc)
                EXCEPT !.reinit = TRUE]
        ELSE [fe |-> [fe1 EXCEPT
                       !.budget_byte = @ - data_len,
                       !.send_next_renewal_at =
                           IF renew_cap
                           THEN Add64(now, fe1.renewal_step_cycle)
                           ELSE @],
              ret |-> enc, freed |-> 0, encap |-> TRUE,
              dscp |-> IF renew_cap THEN PRIORITY_RENEW_CAP
                       ELSE PRIORITY_GRANTED,
              prio |-> 0, override |-> FALSE,
              delta0 |-> FALSE, reinit |-> FALSE, req |-> FALSE,
              req_in |-> ZeroEntry, now_req |-> Zero64, ovf |-> ovf]

\* A faulty variant: a packet longer than the budget is dropped and uses up
\* what is left of the budget.
gk_process_granted_charge_dropped(fe_, data_len, now, now2, enc) ==
    IF Geq64(now, fe_.cap_expire_at)
    THEN [gk_process_request(reinitialize_flow_entry(fe_, now), now2, enc)
            EXCEPT !.reinit = TRUE]
    ELSE LET fe1 == IF Geq64(now, fe_.budget_renew_at)
                    THEN [fe_ EXCEPT
                            !.budget_renew_at = Add64(now, cycles_per_sec),
                            !.budget_byte = MulInt1024(fe_.tx_rate_kb_cycle)]
                    ELSE fe_
             renew_cap == Geq64(now, fe1.send_next_renewal_at)
             ovf == /\ Geq64(now, fe_.budget_renew_at)
                    /\ IntOverflows1024(fe_.tx_rate_kb_cycle)
         IN  IF data_len > fe1.budget_byte
             THEN [fe |-> [fe1 EXCEPT !.budget_byte = 0],
                   ret |-> 0, freed |-> 1, encap |-> FALSE,
                   dscp |-> 0, prio |-> 0, override |-> FALSE,
                   delta0 |-> FALSE, reinit |-> FALSE, req |-> FALSE,
                   req_in |-> ZeroEntry, now_req |-> Zero64, ovf |-> ovf]
             ELSE [fe |-> [fe1 EXCEPT
                            !.budget_byte = @ - data_len,
                            !.send_next_renewal_at =
                                IF renew_cap
                                THEN Add64(now, fe1.renewal_step_cycle)
                                ELSE @],
                   ret |-> enc, freed |-> 0, encap |-> TRUE,
                   dscp |-> IF renew_cap THEN PRIORITY_RENEW_CAP
                            ELSE PRIORITY_GRANTED,
                   prio |-> 0, override |-> FALSE,
                   delta0 |-> FALSE, reinit |-> FALSE, req |-> FALSE,
                   req_in |-> ZeroEntry, now_req |-> Zero64, ovf |-> ovf]

\* A faulty variant: the next renewal is scheduled from the time the last one
\* was due, not from the time of the packet.
gk_process_granted_fixed_schedule(fe_, data_len, now, now2, enc) ==
    IF Geq64(now, fe_.cap_expire_at)
    THEN [gk_process_request(reinitialize_flow_entry(fe_, now), now2, enc)
            EXCEPT !.reinit = TRUE]
    ELSE LET fe1 == IF Geq64(now, fe_.budget_renew_at)
                    THEN [fe_ EXCEPT
                            !.budget_renew_at = Add64(now, cycles_per_sec),
                            !.budget_byte = MulInt1024(fe_.tx_rate_kb_cycle)]
                    ELSE fe_
             renew_cap == Geq64(now, fe1.send_next_renewal_at)
             ovf == /\ Geq64(now, fe_.budget_renew_at)
                    /\ IntOverflows1024(fe_.tx_rate_kb_cycle)
         IN  IF data_len > fe1.budget_byte
             THEN [fe |-> fe1, ret |-> 0, freed |-> 1, encap |-> FALSE,
                   dscp |-> 0, prio |-> 0, override |-> FALSE,
                   delta0 |-> FALSE, reinit |-> FALSE, req |-> FALSE,
                   req_in |-> ZeroEntry, now_req |-> Zero64, ovf |-> ovf]
             ELSE [fe |-> [fe1 EXCEPT
                            !.budget_byte = @ - data_len,
                            !.send_next_renewal_at =
                                IF renew_cap
                                THEN Add64(@, fe1.renewal_step_cycle)
                                ELSE @],
                   ret |-> enc, freed |-> 0, encap |-> TRUE,
                   dscp |-> IF renew_cap THEN PRIORITY_RENEW_CAP
                            ELSE PRIORITY_GRANTED,
                   prio |-> 0, override |-> FALSE,
                   delta0 |-> FALSE, reinit |-> FALSE, req |-> FALSE,
                   req_in |-> ZeroEntry, now_req |-> Zero64, ovf |-> ovf]

gk_process_granted(fe_, data_len, now, now2, enc) ==
    IF Geq64(now, fe_.cap_expire_at)
    THEN [gk_process_request(reinitialize_flow_entry(fe_, now), now2, enc)
            EXCEPT !.reinit = TRUE]
    ELSE LET fe1 == IF Geq64(now, fe_.budget_renew_at)
                    THEN [fe_ EXCEPT
                            !.budget_renew_at = Add64(now, cycles_per_sec),
                            !.budget_byte = MulInt1024(fe_.tx_rate_kb_cycle)]
                    ELSE fe_
             renew_cap == Geq64(now, fe1.send_next_renewal_at)
             ovf == /\ Geq64(now, fe_.budget_renew_at)
                    /\ IntOverflows1024(fe_.tx_rate_kb_cycle)
         IN  IF data_len > fe1.budget_byte
             THEN \* drop_packet: the buffer is freed and 0 is returned.
                  [fe |-> fe1, ret |-> 0, freed |-> 1, encap |-> FALSE,
                   dscp |-> 0, prio |-> 0, override |-> FALSE,
                   delta0 |-> FALSE, reinit |-> FALSE, req |-> FALSE,
                   req_in |-> ZeroEntry, now_req |-> Zero64, ovf |-> ovf]
             ELSE [fe |-> [fe1 EXCEPT
                            !.budget_byte = @ - data_len,
                            !.send_next_renewal_at =
                                IF renew_cap
                                THEN Add64(now, fe1.renewal_step_cycle)
                                ELSE @],
                   ret |-> enc, freed |-> 0, encap |-> TRUE,
                   dscp |-> IF renew_cap THEN PRIORITY_RENEW_CAP
                            ELSE PRIORITY_GRANTED,
                   prio |-> 0, override |-> FALSE,
                   delta0 |-> FALSE, reinit |-> FALSE, req |-> FALSE,
                   req_in |-> ZeroEntry, now_req |-> Zero64, ovf |-> ovf]

\* A faulty variant: the punishment ends only after expire_at, not at it.
gk_process_declined_strict(fe_, now, now2, enc) ==
    IF Lt64(fe_.expire_at, now)
    THEN [gk_process_request(reinitialize_flow_entry(fe_, now), now2, enc)
            EXCEPT !.reinit = TRUE]
    ELSE [fe |-> fe_, ret |-> 0, freed |-> 1, encap |-> FALSE,
          dscp |-> 0, prio |-> 0, override |-> FALSE,
          delta0 |-> FALSE, reinit |-> FALSE, req |-> FALSE,
          req_in |-> ZeroEntry, now_req |-> Zero64, ovf |-> FALSE]

\* A faulty variant: a packet ends the punishment whatever the time is.
gk_process_declined_forgiving(fe_, now, now2, enc) ==
    [gk_process_request(reinitialize_flow_entry(fe_, now), now2, enc)
        EXCEPT !.reinit = TRUE]

gk_process_declined(fe_, now, now2, enc) ==
    IF Geq64(now, fe_.expire_at)
    THEN [gk_process_request(reinitialize_flow_entry(fe_, now), now2, enc)
            EXCEPT !.reinit = TRUE]
    ELSE [fe |-> fe_, ret |-> 0, freed |-> 1, encap |-> FALSE,
          dscp |-> 0, prio |-> 0, override |-> FALSE,
          delta0 |-> FALSE, reinit |-> FALSE, req |-> FALSE,
          req_in |-> ZeroEntry, now_req |-> Zero64, ovf |-> FALSE]

(***************************************************************************)
(* The flow table of one GK instance: ip_flow_hash_table maps a key to the *)
(* index rte_hash gave it (-1: not present), ip_flow_entry_table holds the *)
(* entry at that index.  Keys are never deleted.                           *)
(***************************************************************************)
AllFlows == {"A", "B"}

\* gk_conf.flow_ht_size, scaled down.
flow_ht_size == 1

Slots == 0..(flow_ht_size - 1)

EmptyHash == [k \in AllFlows |-> -1]
EmptyEntries == [s \in Slots |-> ZeroEntry]

KeysIn(ht_) == {k \in AllFlows : ht_[k] >= 0}

\* rte_hash_lookup_with_hash: the index of the key, or a negative value.
rte_hash_lookup_with_hash(ht_, key) == ht_[key]

\* A faulty variant: when no slot is left, the slot of the oldest key is given
\* to the new key.
rte_hash_add_key_with_hash_evict(ht_, key) ==
    IF Cardinality(KeysIn(ht_)) < flow_ht_size
    THEN Cardinality(KeysIn(ht_))
    ELSE 0

\* rte_hash_add_key_with_hash: the index given to the new key, or a
\* negative value when no slot is left.
rte_hash_add_key_with_hash(ht_, key) ==
    IF Cardinality(KeysIn(ht_)) < flow_ht_size
    THEN Cardinality(KeysIn(ht_))
    ELSE -1

(***************************************************************************)
(* add_ggu_policy and process_gk_cmd.  now is the rte_rdtsc() of line 393, *)
(* rdtsc2 the one initialize_flow_entry reads when the entry is created.   *)
(* A policy is [state, flow, tx_rate_kb_sec, cap_expire_sec,               *)
(* next_renewal_ms, renewal_step_ms, expire_sec].                          *)
(***************************************************************************)
\* A faulty variant: a decline of a flow already declined extends the
\* expiry the entry holds.
apply_policy_extend(fe_, policy, now) ==
    CASE policy.state = "GK_GRANTED" ->
            [ZeroEntry EXCEPT
                !.flow = fe_.flow,
                !.state = "GK_GRANTED",
                !.cap_expire_at =
                    Add64(now, Mul64(cycles_per_sec, policy.cap_expire_sec)),
                !.tx_rate_kb_cycle = policy.tx_rate_kb_sec,
                !.send_next_renewal_at =
                    Add64(now, Mul64(cycles_per_ms, policy.next_renewal_ms)),
                !.renewal_step_cycle =
                    Mul64(cycles_per_ms, policy.renewal_step_ms),
                !.budget_renew_at = Add64(now, cycles_per_sec),
                !.budget_byte = MulInt1024(policy.tx_rate_kb_sec)]
      [] policy.state = "GK_DECLINED" ->
            [ZeroEntry EXCEPT
                !.flow = fe_.flow,
                !.state = "GK_DECLINED",
                !.expire_at =
                    Add64(IF fe_.state = "GK_DECLINED" THEN fe_.expire_at
                          ELSE now,
                          Mul64(cycles_per_sec, policy.expire_sec))]
      [] OTHER -> fe_

apply_policy(fe_, policy, now) ==
    CASE policy.state = "GK_GRANTED" ->
            [ZeroEntry EXCEPT
                !.flow = fe_.flow,
                !.state = "GK_GRANTED",
                !.cap_expire_at =
                    Add64(now, Mul64(cycles_per_sec, policy.cap_expire_sec)),
                !.tx_rate_kb_cycle = policy.tx_rate_kb_sec,
                !.send_next_renewal_at =
                    Add64(now, Mul64(cycles_per_ms, policy.next_renewal_ms)),
                !.renewal_step_cycle =
                    Mul64(cycles_per_ms, policy.renewal_step_ms),
                !.budget_renew_at = Add64(now, cycles_per_sec),
                !.budget_byte = MulInt1024(policy.tx_rate_kb_sec)]
      [] policy.state = "GK_DECLINED" ->
            [ZeroEntry EXCEPT
                !.flow = fe_.flow,
                !.state = "GK_DECLINED",
                !.expire_at =
                    Add64(now, Mul64(cycles_per_sec, policy.expire_sec))]
      [] OTHER -> fe_

\* A faulty variant: a flow without an entry gets the initialized entry and
\* the decision is not applied to it.
add_ggu_policy_init_only(policy, ht_, tab, now, rdtsc2) ==
    LET found == rte_hash_lookup_with_hash(ht_, policy.flow)
        added == rte_hash_add_key_with_hash(ht_, policy.flow)
        ovf == /\ policy.state = "GK_GRANTED"
               /\ IntOverflows1024(policy.tx_rate_kb_sec)
    IN  IF found < 0 /\ added < 0
        THEN [ht |-> ht_, fe |-> tab, created |-> FALSE, slot |-> -1,
              ovf |-> FALSE]
        ELSE IF found < 0
        THEN [ht |-> [ht_ EXCEPT ![policy.flow] = added],
              fe |-> [tab EXCEPT ![added] =
                        initialize_flow_entry(tab[added], policy.flow, rdtsc2)],
              created |-> TRUE, slot |-> added, ovf |-> FALSE]
        ELSE [ht |-> ht_,
              fe |-> [tab EXCEPT ![found] = apply_policy(tab[found], policy, now)],
              created |-> FALSE, slot |-> found, ovf |-> ovf]

add_ggu_policy(policy, ht_, tab, now, rdtsc2) ==
    LET found == rte_hash_lookup_with_hash(ht_, policy.flow)
        added == rte_hash_add_key_with_hash(ht_, policy.flow)
        ovf == /\ policy.state = "GK_GRANTED"
               /\ IntOverflows1024(policy.tx_rate_kb_sec)
    IN  IF found < 0 /\ added < 0
        THEN [ht |-> ht_, fe |-> tab, created |-> FALSE, slot |-> -1,
              ovf |-> FALSE]
        ELSE IF found < 0
        THEN [ht |-> [ht_ EXCEPT ![policy.flow] = added],
              fe |-> [tab EXCEPT ![added] =
                        apply_policy(
                            initialize_flow_entry(tab[added], policy.flow, rdtsc2),
                            policy, now)],
              created |-> TRUE, slot |-> added, ovf |-> ovf]
        ELSE [ht |-> ht_,
              fe |-> [tab EXCEPT ![found] = apply_policy(tab[found], policy, now)],
              created |-> FALSE, slot |-> found, ovf |-> ovf]

process_gk_cmd(entry, ht_, tab, now, rdtsc2) ==
    IF entry.op = "GGU_POLICY_ADD"
    THEN add_ggu_policy(entry.ggu, ht_, tab, now, rdtsc2)
    ELSE [ht |-> ht_, fe |-> tab, created |-> FALSE, slot |-> -1,
          ovf |-> FALSE]

(***************************************************************************)
(* The body of the per-packet loop of gk_proc (lines 523-617) for one      *)
(* buffer.  A packet is [kind, flow, data_len]: kind "bad" makes           *)
(* extract_packet_info fail, kind "nd" satisfies pkt_is_nd, kind "ip" is   *)
(* any other IP packet.  t1 and t2 are the first and the second value      *)
(* rte_rdtsc() returns while the packet is processed, enc the value of     *)
(* encapsulate, nd the value of submit_nd.                                 *)
(* The result holds the table, the number of clock readings made, what     *)
(* happened to the buffer (freed: number of rte_pktmbuf_free calls, tx:    *)
(* stored in tx_bufs, lls: taken by the LLS, dropped: drop_packet called   *)
(* by the state machine) and the record of the classification (before:     *)
(* the entry at the switch on fe->state, now: the clock reading of the     *)
(* function the switch called).                                            *)
(***************************************************************************)
NoOut ==
    [valid |-> FALSE, flow |-> NoFlow, slot |-> 0, data_len |-> 0,
     created |-> FALSE, before |-> ZeroEntry, path |-> "none", now |-> Zero64,
     reinit |-> FALSE, req |-> FALSE, req_in |-> ZeroEntry,
     now_req |-> Zero64, delta0 |-> FALSE, prio |-> 0, override |-> FALSE,
     ret |-> 0, encap |-> FALSE, dscp |-> 0, dropped |-> FALSE]

Classify(fe_, data_len, now, now2, enc) ==
    CASE fe_.state = "GK_REQUEST" -> gk_process_request(fe_, now, enc)
      [] fe_.state = "GK_GRANTED" ->
            gk_process_granted(fe_, data_len, now, now2, enc)
      [] fe_.state = "GK_DECLINED" -> gk_process_declined(fe_, now, now2, enc)

Fate(freed, tx, lls, dropped) ==
    [freed |-> freed, tx |-> tx, lls |-> lls, dropped |-> dropped,
     sent |-> FALSE]

Classified(ht1, tab, pkt, slot, created, before, now, r) ==
    [ht |-> ht1, fe |-> [tab EXCEPT ![slot] = r.fe],
     nreads |-> IF created \/ r.reinit THEN 2 ELSE 1,
     ovf |-> r.ovf,
     fate |-> Fate(r.freed + (IF r.ret < 0 THEN 1 ELSE 0), r.ret >= 0, FALSE,
                   r.freed > 0),
     out |-> [valid |-> TRUE, flow |-> pkt.flow, slot |-> slot,
              data_len |-> pkt.data_len, created |-> created,
              before |-> before, path |-> before.state, now |-> now,
              reinit |-> r.reinit, req |-> r.req, req_in |-> r.req_in,
              now_req |-> r.now_req, delta0 |-> r.delta0, prio |-> r.prio,
              override |-> r.override, ret |-> r.ret, encap |-> r.encap,
              dscp |-> r.dscp, dropped |-> r.freed > 0]]

Unclassified(ht_, tab, fate) ==
    [ht |-> ht_, fe |-> tab, nreads |-> 0, ovf |-> FALSE, fate |-> fate,
     out |-> NoOut]

gk_proc_packet(ht_, tab, pkt, t1, t2, enc, nd) ==
    IF pkt.kind = "bad"
    THEN Unclassified(ht_, tab, Fate(1, FALSE, FALSE, FALSE))
    ELSE IF pkt.kind = "nd"
    THEN Unclassified(ht_, tab,
                      Fate(IF nd = -1 THEN 1 ELSE 0, FALSE, nd # -1, FALSE))
    ELSE IF rte_hash_lookup_with_hash(ht_, pkt.flow) >= 0
    THEN Classified(ht_, tab, pkt, rte_hash_lookup_with_hash(ht_, pkt.flow),
                    FALSE, tab[rte_hash_lookup_with_hash(ht_, pkt.flow)], t1,
                    Classify(tab[rte_hash_lookup_with_hash(ht_, pkt.flow)],
                             pkt.data_len, t1, t2, enc))
    ELSE IF rte_hash_add_key_with_hash(ht_, pkt.flow) < 0
    THEN Unclassified(ht_, tab, Fate(1, FALSE, FALSE, FALSE))
    ELSE Classified([ht_ EXCEPT ![pkt.flow] =
                        rte_hash_add_key_with_hash(ht_, pkt.flow)],
                    tab, pkt, rte_hash_add_key_with_hash(ht_, pkt.flow), TRUE,
                    initialize_flow_entry(
                        tab[rte_hash_add_key_with_hash(ht_, pkt.flow)],
                        pkt.flow, t1),
                    t2,
                    Classify(initialize_flow_entry(
                                tab[rte_hash_add_key_with_hash(ht_, pkt.flow)],
                                pkt.flow, t1),
                             pkt.data_len, t2, t2, enc))

(***************************************************************************)
(* State.                                                                  *)
(***************************************************************************)
VARIABLES
    tsc,      \* the last value rte_rdtsc() returned on the worker's core
    ht,       \* instance->ip_flow_hash_table
    fe,       \* instance->ip_flow_entry_table
    out,      \* the classification of the packet processed last
    pc,       \* where gk_proc stands in its loop
    rx_bufs,  \* the buffers of the receive burst not processed yet
    fates,    \* what happened to each buffer of the receive burst so far
    tx_bufs,  \* tx_bufs[0..num_tx-1], as positions in the receive burst
    mb,       \* instance->mb: the commands enqueued and not dequeued yet
    gk_cmds,  \* the commands dequeued and not processed yet
    cmd,      \* the policy command processed last (kept by SpecPolicy)
    reta,            \* gk_conf->rss_conf.reta_conf, as one table
    rx_queue_front,  \* gk_conf->instances[i].rx_queue_front
    mbx,             \* the last call of get_responsible_gk_mailbox
    lls_conf,        \* where ARP and ND are enabled, and the back interface
    lls_pc,          \* where lls_proc stands in its loop
    requests,        \* lls_conf.requests: the requests not processed yet
    timer,           \* lls_conf.timer: seconds left until it expires
    scanned,         \* the caches the last lls_scan went through
    lls_out,         \* what the last process_pkts did with each frame
    lls_call,        \* the last call of hold_arp ... submit_nd
    renewals,        \* the packets sent with PRIORITY_RENEW_CAP since the
                     \* last policy command (kept by SpecRenewal)
    mb_log,          \* what was done with the entries of the mailbox, in
                     \* order (kept by SpecMailbox)
    gk_conf,         \* struct gk_config: ref_cnt and what is allocated
    launch,          \* where the launcher stands in the stages of run_gk
    exiting,         \* the flag the loops of the blocks test
    lcore_pc,        \* where gk_proc stands on each lcore of the GK block
    instances,       \* gk_conf->instances: the tables and the mailbox of
                     \* each instance (kept by SpecWorkers)
    writer           \* who took the last step of SpecWorkers

gk_vars ==
    <<tsc, ht, fe, out, pc, rx_bufs, fates, tx_bufs, mb, gk_cmds, cmd>>

rss_vars == <<reta, rx_queue_front, mbx>>

lls_vars ==
    <<lls_conf, lls_pc, requests, timer, scanned, lls_out, lls_call>>

aux_vars ==
    <<renewals, mb_log, gk_conf, launch, exiting, lcore_pc, instances, writer>>

vars == <<gk_vars, rss_vars, lls_vars, aux_vars>>

(***************************************************************************)
(* The state outside the GK worker, as the specifications of the GK worker *)
(* keep it: no call of get_responsible_gk_mailbox made, the LLS block at   *)
(* the top of its loop with nothing enabled, received or requested.        *)
(***************************************************************************)
NoMbx == [valid |-> FALSE, hash |-> 0, queue_id |-> 0, block_idx |-> 0]

\* The configuration alloc_gk_conf returns: rte_calloc gives zeroes.  conf,
\* instances and the fields of inst[i] are "null" (nothing allocated),
\* "live", "freed" or "freed_twice"; cleanups counts the runs of cleanup_gk.
NewGkConf ==
    [ref_cnt |-> 0, conf |-> "live", instances |-> "null", inst |-> <<>>,
     cleanups |-> 0]

\* The launcher when run_gk is called: no stage is registered.
NotLaunched ==
    [pc |-> "register", registered |-> <<>>, i |-> 0, step |-> 1, ret |-> 0]

Nobody == [kind |-> "none", lcore |-> 0]

AuxIdle ==
    /\ renewals = <<>>
    /\ mb_log = <<>>
    /\ gk_conf = NewGkConf
    /\ launch = NotLaunched
    /\ exiting = FALSE
    /\ lcore_pc = [i \in {} |-> "launched"]
    /\ instances = <<>>
    /\ writer = Nobody

RssIdle ==
    /\ reta = <<>>
    /\ rx_queue_front = <<>>
    /\ mbx = NoMbx

NoLlsCall ==
    [valid |-> FALSE, fn |-> "none", ret |-> 0, reqs |-> <<>>,
     before |-> <<>>, after |-> <<>>]

NoLlsConf ==
    [arp_front |-> FALSE, arp_back |-> FALSE, nd_front |-> FALSE,
     nd_back |-> FALSE, back_iface_enabled |-> FALSE]

LlsIdle ==
    /\ lls_conf = NoLlsConf
    /\ lls_pc = "front"
    /\ requests = <<>>
    /\ timer = 0
    /\ scanned = {}
    /\ lls_out = <<>>
    /\ lls_call = NoLlsCall

(***************************************************************************)
(* The record of a policy command: the policy, now (the clock reading of   *)
(* line 393), whether the entry was created, its slot (-1: none), and the  *)
(* hash table and the entry table as they were before the command.         *)
(***************************************************************************)
NoPolicy ==
    [state |-> "none", flow |-> NoFlow, tx_rate_kb_sec |-> 0,
     cap_expire_sec |-> 0, next_renewal_ms |-> 0, renewal_step_ms |-> 0,
     expire_sec |-> 0]

NoCmd ==
    [valid |-> FALSE, policy |-> NoPolicy, now |-> Zero64, created |-> FALSE,
     slot |-> -1, ht0 |-> EmptyHash, fe0 |-> EmptyEntries, pkts |-> 0,
     fresh |-> FALSE]

CmdRecord(entry, now, r, ht_, tab) ==
    [valid |-> TRUE, policy |-> entry.ggu, now |-> now, created |-> r.created,
     slot |-> r.slot, ht0 |-> ht_, fe0 |-> tab, pkts |-> 0, fresh |-> TRUE]

(***************************************************************************)
(* SpecFlow: packets and policy commands of the flows FlowKeys, applied in *)
(* any order, with the clock readings drawn from FlowTimes.                *)
(***************************************************************************)
FlowKeys == {"A"}

\* ceil(2^64 / 500) cycles, about 213 days at 2 GHz: the shortest gap whose
\* product with picosec_per_cycle does not fit 64 bits.
WrapGap == <<872416, 637534, 2097>>

FlowTimes ==
    { U64(0), U64(4), U64(8),
      cycles_per_sec,               \* 1 s
      Mul64(cycles_per_sec, 3),     \* 3 s
      WrapGap }

PktLens == {2000, 5000, 20000}

EncapResults == {0, -1}

Granted(rate, cap, next, step) ==
    [state |-> "GK_GRANTED", tx_rate_kb_sec |-> rate, cap_expire_sec |-> cap,
     next_renewal_ms |-> next, renewal_step_ms |-> step, expire_sec |-> 0]

Declined(sec) ==
    [state |-> "GK_DECLINED", tx_rate_kb_sec |-> 0, cap_expire_sec |-> 0,
     next_renewal_ms |-> 0, renewal_step_ms |-> 0, expire_sec |-> sec]

FlowDecisions ==
    { Granted(10, 60, 500, 500), Granted(2097152, 60, 500, 500), Declined(2) }

WithFlow(d, f) ==
    [state |-> d.state, flow |-> f, tx_rate_kb_sec |-> d.tx_rate_kb_sec,
     cap_expire_sec |-> d.cap_expire_sec, next_renewal_ms |-> d.next_renewal_ms,
     renewal_step_ms |-> d.renewal_step_ms, expire_sec |-> d.expire_sec]

\* The clock readings of the set S that are not before t.
NotBefore(S, t) == {u \in S : Leq64(t, u)}

InitFlow ==
    /\ tsc = U64(0)
    /\ ht = EmptyHash
    /\ fe = EmptyEntries
    /\ out = NoOut
    /\ pc = "rx"
    /\ rx_bufs = <<>>
    /\ fates = <<>>
    /\ tx_bufs = <<>>
    /\ mb = <<>>
    /\ gk_cmds = <<>>
    /\ cmd = NoCmd
    /\ RssIdle
    /\ LlsIdle
    /\ AuxIdle

FlowPacket ==
    /\ pc = "rx"
    /\ \E f \in FlowKeys, len \in PktLens, enc \in EncapResults,
          trap \in BOOLEAN :
       \E t1 \in NotBefore(FlowTimes, tsc) :
       \E t2 \in NotBefore(FlowTimes, t1) :
       \E r \in {gk_proc_packet(ht, fe, [kind |-> "ip", flow |-> f,
                                         data_len |-> len], t1, t2, enc, 0)} :
        /\ r.nreads < 2 => t2 = t1
        /\ IF r.ovf /\ trap
           THEN pc' = "abort" /\ UNCHANGED <<tsc, ht, fe, out>>
           ELSE /\ ht' = r.ht
                /\ fe' = r.fe
                /\ out' = r.out
                /\ tsc' = IF r.nreads = 0 THEN tsc ELSE t2
                /\ pc' = pc
    /\ UNCHANGED <<rx_bufs, fates, tx_bufs, mb, gk_cmds, cmd>>
    /\ UNCHANGED <<rss_vars, lls_vars, aux_vars>>

FlowPolicy ==
    /\ pc = "rx"
    /\ \E f \in FlowKeys, d \in FlowDecisions, trap \in BOOLEAN :
       \E t1 \in NotBefore(FlowTimes, tsc) :
       \E t2 \in NotBefore(FlowTimes, t1) :
       \E r \in {process_gk_cmd([op |-> "GGU_POLICY_ADD",
                                 ggu |-> WithFlow(d, f)], ht, fe, t1, t2)} :
        /\ ~r.created => t2 = t1
        /\ IF r.ovf /\ trap
           THEN pc' = "abort" /\ UNCHANGED <<tsc, ht, fe, out>>
           ELSE /\ ht' = r.ht
                /\ fe' = r.fe
                /\ out' = NoOut
                /\ tsc' = t2
                /\ pc' = pc
    /\ UNCHANGED <<rx_bufs, fates, tx_bufs, mb, gk_cmds, cmd>>
    /\ UNCHANGED <<rss_vars, lls_vars, aux_vars>>

NextFlow == FlowPacket \/ FlowPolicy

SpecFlow == InitFlow /\ [][NextFlow]_vars

(***************************************************************************)
(***************************************************************************)
(* SpecRenewal: packets and GRANTED decisions of one flow on a clock of    *)
(* 100 ms steps.  renewals lists, for every packet handed to encapsulate   *)
(* with PRIORITY_RENEW_CAP since the last policy command, the time the     *)
(* packet was processed at and the renewal_step_cycle of its entry.        *)
(***************************************************************************)
RenewalTimes ==
    {Mul64(cycles_per_ms, 100 * k) : k \in 0 .. 5} \cup {cycles_per_sec}

RenewalLens == {2000, 20000}

\* Renewal steps of 200 ms and 300 ms; the first capability lasts one second.
RenewalDecisions == {Granted(10, 1, 100, 200), Granted(10, 60, 0, 300)}

Renewed(o) ==
    /\ o.valid
    /\ o.path = "GK_GRANTED"
    /\ ~o.reinit
    /\ o.encap
    /\ o.dscp = PRIORITY_RENEW_CAP

RenewalPacket ==
    /\ pc = "rx"
    /\ \E f \in FlowKeys, len \in RenewalLens, enc \in EncapResults :
       \E t1 \in NotBefore(RenewalTimes, tsc) :
       \E t2 \in NotBefore(RenewalTimes, t1) :
       \E r \in {gk_proc_packet(ht, fe, [kind |-> "ip", flow |-> f,
                                         data_len |-> len], t1, t2, enc, 0)} :
        /\ r.nreads < 2 => t2 = t1
        /\ ~r.ovf
        /\ ht' = r.ht
        /\ fe' = r.fe
        /\ out' = r.out
        /\ tsc' = IF r.nreads = 0 THEN tsc ELSE t2
        /\ renewals' =
              IF Renewed(r.out)
              THEN Append(renewals,
                          [at |-> r.out.now,
                           step |-> r.out.before.renewal_step_cycle])
              ELSE renewals
    /\ UNCHANGED <<pc, rx_bufs, fates, tx_bufs, mb, gk_cmds, cmd, mb_log>>
    /\ UNCHANGED <<gk_conf, launch, exiting, lcore_pc, instances, writer>>
    /\ UNCHANGED <<rss_vars, lls_vars>>

RenewalPolicy ==
    /\ pc = "rx"
    /\ \E f \in FlowKeys, d \in RenewalDecisions :
       \E t1 \in NotBefore(RenewalTimes, tsc) :
       \E t2 \in NotBefore(RenewalTimes, t1) :
       \E r \in {process_gk_cmd([op |-> "GGU_POLICY_ADD",
                                 ggu |-> WithFlow(d, f)], ht, fe, t1, t2)} :
        /\ ~r.created => t2 = t1
        /\ ~r.ovf
        /\ ht' = r.ht
        /\ fe' = r.fe
        /\ out' = NoOut
        /\ tsc' = t2
        /\ renewals' = <<>>
    /\ UNCHANGED <<pc, rx_bufs, fates, tx_bufs, mb, gk_cmds, cmd, mb_log>>
    /\ UNCHANGED <<gk_conf, launch, exiting, lcore_pc, instances, writer>>
    /\ UNCHANGED <<rss_vars, lls_vars>>

NextRenewal == RenewalPacket \/ RenewalPolicy

SpecRenewal == InitFlow /\ [][NextRenewal]_vars

(***************************************************************************)
(* SpecPolicy: policy commands and packets of two flows, in any order, on  *)
(* the flow table of one worker.  Every policy command is recorded in cmd  *)
(* with the table as it was before the command, the number pkts of         *)
(* packets of its flow classified since, and fresh, which holds until a    *)
(* packet of any flow is classified; cmd is kept until a second packet of  *)
(* its flow has been classified.                                           *)
(***************************************************************************)
PolicyKeys == {"A", "B"}

PolicyTimes ==
    { U64(0),
      cycles_per_sec,               \* 1 s
      Mul64(cycles_per_sec, 3) }    \* 3 s

PolicyLens == {2000}

\* encapsulate succeeds.
PolicyEncap == {0}

\* A decision whose state is neither GK_GRANTED nor GK_DECLINED.
Undecided ==
    [state |-> "GK_REQUEST", tx_rate_kb_sec |-> 0, cap_expire_sec |-> 0,
     next_renewal_ms |-> 0, renewal_step_ms |-> 0, expire_sec |-> 0]

PolicyDecisions == { Granted(10, 60, 500, 500), Declined(2), Undecided }

InitPolicy ==
    /\ tsc = U64(0)
    /\ ht = EmptyHash
    /\ fe = EmptyEntries
    /\ out = NoOut
    /\ pc = "rx"
    /\ rx_bufs = <<>>
    /\ fates = <<>>
    /\ tx_bufs = <<>>
    /\ mb = <<>>
    /\ gk_cmds = <<>>
    /\ cmd = NoCmd
    /\ RssIdle
    /\ LlsIdle
    /\ AuxIdle

PolicyPacket ==
    /\ pc = "rx"
    /\ \E f \in PolicyKeys, len \in PolicyLens, enc \in PolicyEncap,
          trap \in BOOLEAN :
       \E t1 \in NotBefore(PolicyTimes, tsc) :
       \E t2 \in NotBefore(PolicyTimes, t1) :
       \E r \in {gk_proc_packet(ht, fe, [kind |-> "ip", flow |-> f,
                                         data_len |-> len], t1, t2, enc, 0)} :
        /\ r.nreads < 2 => t2 = t1
        /\ IF r.ovf /\ trap
           THEN pc' = "abort" /\ UNCHANGED <<tsc, ht, fe, out, cmd>>
           ELSE /\ ht' = r.ht
                /\ fe' = r.fe
                /\ out' = r.out
                /\ cmd' = IF ~cmd.valid \/ ~r.out.valid
                          THEN cmd
                          ELSE IF r.out.flow # cmd.policy.flow
                          THEN [cmd EXCEPT !.fresh = FALSE]
                          ELSE IF cmd.pkts = 0
                          THEN [cmd EXCEPT !.pkts = 1, !.fresh = FALSE]
                          ELSE NoCmd
                /\ tsc' = IF r.nreads = 0 THEN tsc ELSE t2
                /\ pc' = pc
    /\ UNCHANGED <<rx_bufs, fates, tx_bufs, mb, gk_cmds>>
    /\ UNCHANGED <<rss_vars, lls_vars, aux_vars>>

PolicyCmd ==
    /\ pc = "rx"
    /\ \E f \in PolicyKeys, d \in PolicyDecisions, trap \in BOOLEAN :
       \E t1 \in NotBefore(PolicyTimes, tsc) :
       \E t2 \in NotBefore(PolicyTimes, t1) :
       \E r \in {process_gk_cmd([op |-> "GGU_POLICY_ADD",
                                 ggu |-> WithFlow(d, f)], ht, fe, t1, t2)} :
        /\ ~r.created => t2 = t1
        /\ IF r.ovf /\ trap
           THEN pc' = "abort" /\ UNCHANGED <<tsc, ht, fe, out, cmd>>
           ELSE /\ ht' = r.ht
                /\ fe' = r.fe
                /\ out' = NoOut
                /\ cmd' = CmdRecord([op |-> "GGU_POLICY_ADD",
                                     ggu |-> WithFlow(d, f)], t1, r, ht, fe)
                /\ tsc' = t2
                /\ pc' = pc
    /\ UNCHANGED <<rx_bufs, fates, tx_bufs, mb, gk_cmds>>
    /\ UNCHANGED <<rss_vars, lls_vars, aux_vars>>

NextPolicy == PolicyPacket \/ PolicyCmd

SpecPolicy == InitPolicy /\ [][NextPolicy]_vars

(***************************************************************************)
(* Spec: the loop of gk_proc on one worker, with the producers that        *)
(* enqueue policy commands into the worker's mailbox.  One pass through    *)
(* the body of the while loop is one iteration:                            *)
(*   "rx"  at rte_eth_rx_burst (line 517), the top of the loop;            *)
(*   "pkt" in the per-packet loop (lines 523-617);                         *)
(*   "tx"  at rte_eth_tx_burst (line 620);                                 *)
(*   "deq" at mb_dequeue_burst (line 630);                                 *)
(*   "cmd" in the per-command loop (lines 633-636).                        *)
(*   "abort" after a trap on a signed overflow.                            *)
(* Each mailbox entry carries the bookkeeping field age, which the code    *)
(* does not have: 0 when enqueued, 1 once an iteration has started after   *)
(* the enqueue, 2 once such an iteration has ended with the entry still    *)
(* in the mailbox.                                                         *)
(***************************************************************************)
\* GATEKEEPER_MAX_PKT_BURST, scaled down.
MaxBurst == 2

\* The capacity of the mailbox, scaled down.
MbSize == 2

LoopTimes == { U64(0), Mul64(cycles_per_sec, 3) }

LoopPkts ==
    { [kind |-> "bad", flow |-> NoFlow, data_len |-> 60],
      [kind |-> "nd", flow |-> NoFlow, data_len |-> 86],
      [kind |-> "ip", flow |-> "A", data_len |-> 6000],
      [kind |-> "ip", flow |-> "B", data_len |-> 2000] }

LoopPolicies ==
    { WithFlow(Granted(10, 60, 500, 500), "A"), WithFlow(Declined(2), "A") }

\* submit_nd returns what lls_req returned, or -1.
NdResults == {0, -1}

\* What rte_eth_rx_burst can return: up to MaxBurst buffers.
RxBursts == UNION {[1..n -> LoopPkts] : n \in 0..MaxBurst}

\* An iteration starts: the entries enqueued before it are now waiting for
\* this iteration.
IterationStarts(q) ==
    [k \in DOMAIN q |-> IF q[k].age = 0 THEN [q[k] EXCEPT !.age = 1] ELSE q[k]]

\* An iteration ends: the entries that waited for it and are still in the
\* mailbox have been passed over.
IterationEnds(q) ==
    [k \in DOMAIN q |-> IF q[k].age = 1 THEN [q[k] EXCEPT !.age = 2] ELSE q[k]]

Init ==
    /\ tsc = U64(0)
    /\ ht = EmptyHash
    /\ fe = EmptyEntries
    /\ out = NoOut
    /\ pc = "rx"
    /\ rx_bufs = <<>>
    /\ fates = <<>>
    /\ tx_bufs = <<>>
    /\ mb = <<>>
    /\ gk_cmds = <<>>
    /\ cmd = NoCmd
    /\ RssIdle
    /\ LlsIdle
    /\ AuxIdle

\* A producer's enqueue returns ok: the command is in the mailbox.  (When the
\* mailbox is full the enqueue fails and nothing changes.)
Enqueue ==
    /\ Len(mb) < MbSize
    /\ \E p \in LoopPolicies :
        mb' = Append(mb, [op |-> "GGU_POLICY_ADD", ggu |-> p, age |-> 0])
    /\ UNCHANGED <<tsc, ht, fe, out, pc, rx_bufs, fates, tx_bufs, gk_cmds,
                   cmd>>
    /\ UNCHANGED <<rss_vars, lls_vars, aux_vars>>

\* Lines 517-521: the receive burst; with num_rx = 0 the continue statement
\* ends the iteration there.
RxBurst ==
    /\ pc = "rx"
    /\ \E bufs \in RxBursts :
        /\ rx_bufs' = bufs
        /\ pc' = IF Len(bufs) = 0 THEN "rx" ELSE "pkt"
        /\ mb' = IF Len(bufs) = 0
                 THEN IterationEnds(IterationStarts(mb))
                 ELSE IterationStarts(mb)
    /\ fates' = <<>>
    /\ tx_bufs' = <<>>
    /\ out' = NoOut
    /\ UNCHANGED <<tsc, ht, fe, gk_cmds, cmd>>
    /\ UNCHANGED <<rss_vars, lls_vars, aux_vars>>

\* Lines 523-617 for the buffer rx_bufs[i].
ProcessPacket ==
    /\ pc = "pkt"
    /\ \E enc \in EncapResults, nd \in NdResults, trap \in BOOLEAN :
       \E t1 \in NotBefore(LoopTimes, tsc) :
       \E t2 \in NotBefore(LoopTimes, t1) :
       \E r \in {gk_proc_packet(ht, fe, Head(rx_bufs), t1, t2, enc, nd)} :
        /\ r.nreads < 2 => t2 = t1
        /\ r.nreads = 0 => t1 = tsc
        /\ IF r.ovf /\ trap
           THEN /\ pc' = "abort"
                /\ UNCHANGED <<tsc, ht, fe, out, rx_bufs, fates, tx_bufs>>
           ELSE /\ ht' = r.ht
                /\ fe' = r.fe
                /\ out' = r.out
                /\ tsc' = t2
                /\ fates' = Append(fates, r.fate)
                /\ tx_bufs' = IF r.fate.tx
                              THEN Append(tx_bufs, Len(fates) + 1)
                              ELSE tx_bufs
                /\ rx_bufs' = Tail(rx_bufs)
                /\ pc' = IF Len(rx_bufs) = 1 THEN "tx" ELSE "pkt"
    /\ UNCHANGED <<mb, gk_cmds, cmd>>
    /\ UNCHANGED <<rss_vars, lls_vars, aux_vars>>

\* Lines 620-627: the transmit burst takes the first num_tx_succ buffers of
\* tx_bufs; the worker frees the others.
TxBurst ==
    /\ pc = "tx"
    /\ \E num_tx_succ \in 0..Len(tx_bufs) :
        fates' =
            [b \in DOMAIN fates |->
                IF \E k \in 1..num_tx_succ : tx_bufs[k] = b
                THEN [fates[b] EXCEPT !.sent = TRUE]
                ELSE IF \E k \in (num_tx_succ + 1)..Len(tx_bufs) : tx_bufs[k] = b
                THEN [fates[b] EXCEPT !.freed = @ + 1]
                ELSE fates[b]]
    /\ pc' = "deq"
    /\ out' = NoOut
    /\ UNCHANGED <<tsc, ht, fe, rx_bufs, tx_bufs, mb, gk_cmds, cmd>>
    /\ UNCHANGED <<rss_vars, lls_vars, aux_vars>>

\* Line 630: mb_dequeue_burst takes up to GK_CMD_BURST_SIZE commands, the
\* oldest first.  With num_cmd = 0 the iteration ends.
DequeueBurst ==
    /\ pc = "deq"
    /\ \E num_cmd \in {IF Len(mb) < GK_CMD_BURST_SIZE THEN Len(mb)
                       ELSE GK_CMD_BURST_SIZE} :
        /\ gk_cmds' = SubSeq(mb, 1, num_cmd)
        /\ mb' = IF num_cmd = 0
                 THEN IterationEnds(mb)
                 ELSE SubSeq(mb, num_cmd + 1, Len(mb))
        /\ pc' = IF num_cmd = 0 THEN "rx" ELSE "cmd"
        /\ fates' = IF num_cmd = 0 THEN <<>> ELSE fates
        /\ tx_bufs' = IF num_cmd = 0 THEN <<>> ELSE tx_bufs
    /\ UNCHANGED <<tsc, ht, fe, out, rx_bufs, cmd>>
    /\ UNCHANGED <<rss_vars, lls_vars, aux_vars>>

\* Lines 633-636 for the command gk_cmds[i]; after the last one the
\* iteration ends.
ProcessCmd ==
    /\ pc = "cmd"
    /\ \E trap \in BOOLEAN :
       \E t1 \in NotBefore(LoopTimes, tsc) :
       \E t2 \in NotBefore(LoopTimes, t1) :
       \E r \in {process_gk_cmd(Head(gk_cmds), ht, fe, t1, t2)} :
        /\ ~r.created => t2 = t1
        /\ IF r.ovf /\ trap
           THEN /\ pc' = "abort"
                /\ UNCHANGED <<tsc, ht, fe, out, fates, tx_bufs, mb, gk_cmds>>
           ELSE /\ ht' = r.ht
                /\ fe' = r.fe
                /\ tsc' = t2
                /\ out' = NoOut
                /\ gk_cmds' = Tail(gk_cmds)
                /\ pc' = IF Len(gk_cmds) = 1 THEN "rx" ELSE "cmd"
                /\ mb' = IF Len(gk_cmds) = 1 THEN IterationEnds(mb) ELSE mb
                /\ fates' = IF Len(gk_cmds) = 1 THEN <<>> ELSE fates
                /\ tx_bufs' = IF Len(gk_cmds) = 1 THEN <<>> ELSE tx_bufs
    /\ UNCHANGED <<rx_bufs, cmd>>
    /\ UNCHANGED <<rss_vars, lls_vars, aux_vars>>

Next ==
    \/ Enqueue
    \/ RxBurst
    \/ ProcessPacket
    \/ TxBurst
    \/ DequeueBurst
    \/ ProcessCmd

Spec == Init /\ [][Next]_vars

(***************************************************************************)
(* SpecMailbox: the mailbox of one worker with more entries than one burst *)
(* takes.  A producer enqueues up to MaxEntries commands, numbered in the  *)
(* order of their enqueue by the bookkeeping field id; the receive bursts  *)
(* of the worker are empty or hold one buffer that extract_packet_info     *)
(* rejects.  mb_log lists what the worker did with the entries of the last *)
(* burst it took off the mailbox:                                          *)
(*   "deq"  mb_dequeue_burst stored the entry in gk_cmds (line 630);       *)
(*   "read" process_gk_cmd read the entry (line 634);                      *)
(*   "free" mb_free_entry released the entry (line 635).                   *)
(***************************************************************************)
\* MAILBOX_MAX_ENTRIES, scaled down to two more than one burst.
MailboxSize == 34

MaxEntries == 34

MailboxPolicy == WithFlow(Declined(2), "A")

Event(ev, id) == [ev |-> ev, id |-> id]

\* The events of the kind ev, in order.
Events(ev) == SelectSeq(mb_log, LAMBDA e : e.ev = ev)

\* The entries enqueued so far: the id of the one enqueued last.
Enqueued ==
    IF mb # <<>> THEN mb[Len(mb)].id
    ELSE IF mb_log # <<>> THEN Events("deq")[Len(Events("deq"))].id
    ELSE 0

\* A faulty variant: the entry is released before the command is applied.
cmd_loop_body_free_first(log, entry) ==
    log \o <<Event("free", entry.id), Event("read", entry.id)>>

\* Lines 634-635: process_gk_cmd(gk_cmds[i], instance), then
\* mb_free_entry(&instance->mb, gk_cmds[i]).
cmd_loop_body(log, entry) ==
    log \o <<Event("read", entry.id), Event("free", entry.id)>>

MailboxEnqueue ==
    /\ Len(mb) < MailboxSize
    /\ Enqueued < MaxEntries
    /\ mb' = Append(mb, [op |-> "GGU_POLICY_ADD", ggu |-> MailboxPolicy,
                         age |-> 0, id |-> Enqueued + 1])
    /\ UNCHANGED <<tsc, ht, fe, out, pc, rx_bufs, fates, tx_bufs, gk_cmds,
                   cmd>>
    /\ UNCHANGED <<renewals, mb_log, gk_conf, launch, exiting, lcore_pc,
                   instances, writer>>
    /\ UNCHANGED <<rss_vars, lls_vars>>

\* Lines 517-627: with num_rx = 0 the iteration ends at the continue
\* statement; a buffer that extract_packet_info rejects is freed, and
\* nothing is sent.
MailboxRx ==
    /\ pc = "rx"
    /\ \E num_rx \in {0, 1} :
        pc' = IF num_rx = 0 THEN "rx" ELSE "deq"
    /\ UNCHANGED <<tsc, ht, fe, out, rx_bufs, fates, tx_bufs, mb, gk_cmds,
                   cmd>>
    /\ UNCHANGED <<renewals, mb_log, gk_conf, launch, exiting, lcore_pc,
                   instances, writer>>
    /\ UNCHANGED <<rss_vars, lls_vars>>

\* Line 630.
MailboxDequeue ==
    /\ pc = "deq"
    /\ \E num_cmd \in {IF Len(mb) < GK_CMD_BURST_SIZE THEN Len(mb)
                       ELSE GK_CMD_BURST_SIZE} :
        /\ gk_cmds' = SubSeq(mb, 1, num_cmd)
        /\ mb' = SubSeq(mb, num_cmd + 1, Len(mb))
        /\ mb_log' = IF num_cmd = 0 THEN mb_log
                      ELSE [k \in 1 .. num_cmd |-> Event("deq", mb[k].id)]
        /\ pc' = IF num_cmd = 0 THEN "rx" ELSE "cmd"
    /\ UNCHANGED <<tsc, ht, fe, out, rx_bufs, fates, tx_bufs, cmd>>
    /\ UNCHANGED <<renewals, gk_conf, launch, exiting, lcore_pc, instances,
                   writer>>
    /\ UNCHANGED <<rss_vars, lls_vars>>

\* Lines 633-636 for the command gk_cmds[i].
MailboxCmd ==
    /\ pc = "cmd"
    /\ \E r \in {process_gk_cmd(Head(gk_cmds), ht, fe, tsc, tsc)} :
        /\ ht' = r.ht
        /\ fe' = r.fe
    /\ mb_log' = cmd_loop_body(mb_log, Head(gk_cmds))
    /\ gk_cmds' = Tail(gk_cmds)
    /\ pc' = IF Len(gk_cmds) = 1 THEN "rx" ELSE "cmd"
    /\ UNCHANGED <<tsc, out, rx_bufs, fates, tx_bufs, mb, cmd>>
    /\ UNCHANGED <<renewals, gk_conf, launch, exiting, lcore_pc, instances,
                   writer>>
    /\ UNCHANGED <<rss_vars, lls_vars>>

NextMailbox ==
    \/ MailboxEnqueue
    \/ MailboxRx
    \/ MailboxDequeue
    \/ MailboxCmd

SpecMailbox == Init /\ [][NextMailbox]_vars

(***************************************************************************)
(* Properties of the loop (Spec).                                          *)
(***************************************************************************)
\* C1: a command whose enqueue returned ok is dequeued and applied no later
\* than the end of the next iteration that starts after the enqueue, however
\* many packets the receive bursts return: no iteration that started after
\* the enqueue ends with the command still in the mailbox.
C1_AppliedByNextIteration == \A k \in DOMAIN mb : mb[k].age < 2

\* The buffers of the iteration have met their end: the transmit burst is
\* done.
BurstSettled == pc \in {"deq", "cmd"} /\ fates # <<>>

\* C2: every buffer of a receive burst ends the iteration freed exactly once,
\* or handed to the LLS, or placed in the transmit burst, and in one of
\* these ways only; a buffer the state machine dropped is freed and is not
\* placed in the transmit burst; a buffer the transmit burst did not accept
\* is freed exactly once by the worker.
C2_BufferDiscipline ==
    BurstSettled =>
        \A b \in DOMAIN fates :
            /\ fates[b].lls => (~fates[b].tx /\ fates[b].freed = 0)
            /\ (~fates[b].lls /\ ~fates[b].tx) => fates[b].freed = 1
            /\ fates[b].dropped => (fates[b].freed = 1 /\ ~fates[b].tx)
            /\ (fates[b].tx /\ fates[b].sent) => fates[b].freed = 0
            /\ (fates[b].tx /\ ~fates[b].sent) => fates[b].freed = 1

(***************************************************************************)
(* Properties of the flow state machine (SpecFlow).  out describes the     *)
(* packet processed last and fe[out.slot] the entry as that packet left    *)
(* it; a policy command clears out.                                        *)
(***************************************************************************)
UsedSlots == {ht[k] : k \in KeysIn(ht)}

After == fe[out.slot]

Min(a, b) == IF a < b THEN a ELSE b

\* b <= r * 1024 over the integers, without forming the product.
AtMostKb(b, r) == b <= 0 \/ (b - 1) \div 1024 < r

\* floor(log2(d * m)) over the integers, for a 64-bit d # 0 and 0 < m < 512:
\* the product is formed on limbs without the truncation to 64 bits.
MathLog2Product(d, m) ==
    LET p0 == d[1] * m
        p1 == d[2] * m + p0 \div Limb
        p2 == d[3] * m + p1 \div Limb
    IN  (IF p2 # 0 THEN 44 + BitLen(p2)
         ELSE IF p1 % Limb # 0 THEN 22 + BitLen(p1 % Limb)
         ELSE BitLen(p0 % Limb)) - 1

\* The gap d = now - last_seen_at of the packet processed last.
Gap == Sub64(out.now_req, out.req_in.last_packet_seen_at)

\* C3: every GRANTED entry has 0 <= budget_byte <= tx_rate_kb_cycle * 1024
\* after each policy install and after each packet.
C3_BudgetWithinRate ==
    \A s \in UsedSlots :
        fe[s].state = "GK_GRANTED" =>
            /\ fe[s].budget_byte >= 0
            /\ AtMostKb(fe[s].budget_byte, fe[s].tx_rate_kb_cycle)

\* C4: every REQUEST entry has allowance in 0..7 and last_priority in 0..63.
C4_RequestRanges ==
    \A s \in UsedSlots :
        fe[s].state = "GK_REQUEST" =>
            /\ fe[s].allowance \in 0..7
            /\ fe[s].last_priority \in 0..63

\* A REQUEST entry at the top priority whose allowance is used up.
C4_Witness ==
    \E s \in UsedSlots :
        /\ fe[s].state = "GK_REQUEST"
        /\ fe[s].allowance = 0
        /\ fe[s].last_priority = 63

\* C5: a packet on the REQUEST path with gap d, d * picosec_per_cycle >= 1,
\* is written with DSCP min(floor(log2(d * picosec_per_cycle)) + 3, 63) when
\* the allowance override does not apply, and with min(last_priority + 3, 63)
\* (last_priority as before the packet) when it applies.
C5_DscpLaw ==
    (out.valid /\ out.req /\ Gap # Zero64) =>
        IF out.override
        THEN out.dscp = Min(out.req_in.last_priority + 3, 63)
        ELSE out.dscp = Min(MathLog2Product(Gap, picosec_per_cycle) + 3, 63)

\* C6: an encapsulated packet carries DSCP 1 or 2 when it was classified on
\* the GRANTED path and a DSCP in 3..63 when it was classified on the REQUEST
\* path; 0 and values above 63 are never written.
C6_DscpRanges ==
    (out.valid /\ out.encap) =>
        /\ out.dscp \in 1..63
        /\ (out.path = "GK_GRANTED" /\ ~out.reinit) => out.dscp \in {1, 2}
        /\ out.req => out.dscp \in 3..63

\* A request written with the clamped DSCP 63 from a priority above 60.
C6_Witness ==
    out.valid /\ out.encap /\ out.req /\ out.prio > 60 /\ out.dscp = 63

\* C7 as claimed: the first packet of a freshly created entry, classified with
\* delta < 1, is emitted with dscp 3 and leaves allowance 6, last_priority 0.
C7_FirstPacketClaimed ==
    (out.valid /\ out.created /\ out.delta0) =>
        /\ out.dscp = 3
        /\ After.allowance = 6
        /\ After.last_priority = 0

\* C7 as amended: that packet takes the allowance branch: it is emitted with
\* dscp 41 (START_PRIORITY + 3) and leaves allowance 6 and last_priority 38.
C7_FirstPacket ==
    (out.valid /\ out.created /\ out.delta0) =>
        /\ out.req_in.last_priority = 38 /\ out.req_in.allowance = 7
        /\ out.dscp = 41
        /\ After.state = "GK_REQUEST"
        /\ After.allowance = 6
        /\ After.last_priority = 38

C7_Witness == out.valid /\ out.created /\ out.delta0 /\ out.encap

\* C8: on a REQUEST entry with last_priority p and allowance a, a packet whose
\* computed priority is below p is emitted with dscp min(p + 3, 63), keeps
\* last_priority and lowers the allowance by one while a > 0 (so k <= a such
\* packets in a row leave a - k); with a = 0 it is emitted with its own
\* priority, which becomes last_priority, and the allowance returns to 7.
C8_AllowanceConsumption ==
    (out.valid /\ out.req /\ out.prio < out.req_in.last_priority) =>
        IF out.req_in.allowance > 0
        THEN /\ out.dscp = Min(out.req_in.last_priority + 3, 63)
             /\ After.last_priority = out.req_in.last_priority
             /\ After.allowance = out.req_in.allowance - 1
        ELSE /\ out.dscp = Min(out.prio + 3, 63)
             /\ After.last_priority = out.prio
             /\ After.allowance = 7

\* The third packet in a row below last_priority 10: dscp 13, allowance 4.
C8_Witness ==
    /\ out.valid /\ out.req /\ out.override
    /\ out.prio < 10
    /\ out.dscp = 13
    /\ After.last_priority = 10
    /\ After.allowance = 4

\* The entry e is as GRANTED(10, 60, 500, 500), installed at t0, left it, but
\* for budget_byte.
Scenario4Entry(e, t0) ==
    /\ e.state = "GK_GRANTED"
    /\ e.tx_rate_kb_cycle = 10
    /\ e.cap_expire_at = Add64(t0, Mul64(cycles_per_sec, 60))
    /\ e.budget_renew_at = Add64(t0, cycles_per_sec)
    /\ e.send_next_renewal_at = Add64(t0, Mul64(cycles_per_ms, 500))
    /\ e.renewal_step_cycle = Mul64(cycles_per_ms, 500)

\* The install time of a GRANTED entry whose budget was not renewed yet.
InstalledAt(e) == Sub64(e.budget_renew_at, cycles_per_sec)

\* The three packets of the grant scenario: 2000 bytes right after the
\* install, 20000 bytes right after that, 5000 bytes one second later.
Scenario4First ==
    /\ out.valid /\ out.path = "GK_GRANTED" /\ out.data_len = 2000
    /\ Scenario4Entry(out.before, InstalledAt(out.before))
    /\ out.before.budget_byte = 10240
    /\ Lt64(out.now, out.before.send_next_renewal_at)

Scenario4Second ==
    /\ out.valid /\ out.path = "GK_GRANTED" /\ out.data_len = 20000
    /\ Scenario4Entry(out.before, InstalledAt(out.before))
    /\ out.before.budget_byte = 8240
    /\ Lt64(out.now, out.before.send_next_renewal_at)

Scenario4Third ==
    /\ out.valid /\ out.path = "GK_GRANTED" /\ out.data_len = 5000
    /\ Scenario4Entry(out.before, InstalledAt(out.before))
    /\ out.before.budget_byte = 8240
    /\ Geq64(out.now, out.before.budget_renew_at)
    /\ Lt64(out.now, Add64(out.before.budget_renew_at, cycles_per_sec))

\* C9 as claimed: dscp 2 and budget 8240; dropped; dscp 1 and budget 5240.
C9_GrantScenarioClaimed ==
    /\ Scenario4First =>
         out.encap /\ out.dscp = 2 /\ After.budget_byte = 8240
    /\ Scenario4Second => out.dropped /\ ~out.encap
    /\ Scenario4Third =>
         out.encap /\ out.dscp = 1 /\ After.budget_byte = 5240

\* C9 as amended: the first packet comes before send_next_renewal_at and is
\* emitted with dscp 1, leaving 8240; the second is dropped and leaves the
\* entry as it is; the third finds the budget renewed to 10240 and the
\* renewal due: dscp 2, leaving 5240.
C9_GrantScenario ==
    /\ Scenario4First =>
         /\ out.encap /\ out.dscp = 1
         /\ After = [out.before EXCEPT !.budget_byte = 8240]
    /\ Scenario4Second =>
         /\ out.dropped /\ ~out.encap
         /\ After = out.before
    /\ Scenario4Third =>
         /\ out.encap /\ out.dscp = 2
         /\ After.budget_byte = 10240 - 5000
         /\ After.budget_renew_at = Add64(out.now, cycles_per_sec)
         /\ After.send_next_renewal_at = Add64(out.now, Mul64(cycles_per_ms, 500))

C9_Witness == Scenario4Third /\ out.encap /\ After.budget_byte = 5240

\* C10 as claimed: the first packet of a DECLINED flow processed with
\* now >= expire_at re-initializes the flow to REQUEST and is emitted as a
\* request with dscp 3.
C10_DeclineExpiryClaimed ==
    (out.valid /\ out.path = "GK_DECLINED"
        /\ Geq64(out.now, out.before.expire_at)) =>
        /\ out.reinit /\ out.req /\ out.encap
        /\ After.state = "GK_REQUEST"
        /\ out.dscp = 3

\* C10 as amended: that packet is processed as a request on the
\* re-initialized entry (last_priority 38, allowance 7): when its computed
\* priority is below 38 it takes the allowance branch and is emitted with
\* dscp 41, leaving allowance 6; otherwise with min(priority + 3, 63).
C10_DeclineExpiry ==
    (out.valid /\ out.path = "GK_DECLINED"
        /\ Geq64(out.now, out.before.expire_at)) =>
        /\ out.reinit /\ out.req /\ out.encap
        /\ out.req_in = reinitialize_flow_entry(out.before, out.now)
        /\ After.state = "GK_REQUEST"
        /\ IF out.prio < 38
           THEN /\ out.dscp = 41
                /\ After.allowance = 6 /\ After.last_priority = 38
           ELSE /\ out.dscp = Min(out.prio + 3, 63)
                /\ After.allowance = 7 /\ After.last_priority = out.prio

\* DECLINED(expire_sec = 2) installed at 0, the packet processed at 3 s.
C10_Witness ==
    /\ out.valid /\ out.path = "GK_DECLINED" /\ out.reinit
    /\ out.before.expire_at = Mul64(cycles_per_sec, 2)
    /\ out.now = Mul64(cycles_per_sec, 3)
    /\ out.dscp = 41

\* C11: a packet of a DECLINED flow processed with now < expire_at is dropped
\* by the state machine (gk_process_declined calls drop_packet, nothing is
\* encapsulated) and leaves the entry as it was; a packet changes the entry
\* only when it is processed with now >= expire_at, and then it
\* re-initializes the entry to REQUEST.
C11_DeclinedUntilExpiry ==
    (out.valid /\ out.path = "GK_DECLINED") =>
        IF Lt64(out.now, out.before.expire_at)
        THEN /\ out.dropped /\ ~out.encap /\ ~out.reinit
             /\ After = out.before
        ELSE /\ out.reinit /\ ~out.dropped
             /\ out.req_in = reinitialize_flow_entry(out.before, out.now)
             /\ After.state = "GK_REQUEST"

\* DECLINED(expire_sec = 2) installed at 0, a packet dropped at 1 s.
C11_Witness ==
    /\ out.valid /\ out.path = "GK_DECLINED" /\ out.dropped
    /\ out.before.expire_at = Mul64(cycles_per_sec, 2)
    /\ out.now = cycles_per_sec
    /\ After.state = "GK_DECLINED"
    /\ After.expire_at = Mul64(cycles_per_sec, 2)


\* C12: a packet of a GRANTED flow processed with now >= cap_expire_at is
\* not emitted with DSCP 1 or 2: it first re-initializes the entry to REQUEST
\* (last_seen_at = now, last_priority = 38, allowance = 7, the flow key
\* kept), and is then classified on the REQUEST path; the budget is neither
\* tested nor charged, so the packet is encapsulated whatever its length.
C12_CapabilityExpiry ==
    (out.valid /\ out.path = "GK_GRANTED"
        /\ Geq64(out.now, out.before.cap_expire_at)) =>
        /\ out.reinit /\ out.req
        /\ out.req_in = [ZeroEntry EXCEPT
                            !.flow = out.before.flow,
                            !.state = "GK_REQUEST",
                            !.last_packet_seen_at = out.now,
                            !.last_priority = 38,
                            !.allowance = 7]
        /\ out.req_in.flow = out.flow
        /\ ~out.dropped /\ out.encap
        /\ out.dscp \notin {1, 2}
        /\ After.state = "GK_REQUEST"

\* A 20000-byte packet, above the budget of 10240, emitted as a request after
\* the capability of GRANTED(10, 60, 500, 500) has expired.
C12_Witness ==
    /\ out.valid /\ out.path = "GK_GRANTED" /\ out.reinit
    /\ out.before.tx_rate_kb_cycle = 10
    /\ out.data_len = 20000
    /\ Geq64(out.now, out.before.cap_expire_at)
    /\ out.encap /\ out.dscp = 41



(***************************************************************************)
(* Properties of SpecPolicy.                                               *)
(***************************************************************************)
\* The entry a policy command was applied to.
Applied == fe[cmd.slot]

\* The entry before the command, when the flow had one.
Previous == cmd.fe0[cmd.slot]

\* The policy command was applied and no packet was classified since.
JustApplied == cmd.valid /\ cmd.slot >= 0 /\ cmd.fresh

\* C13: a DECLINED decision applied at time now leaves
\* expire_at = now + expire_sec * cycles_per_sec, whatever the entry held
\* before; applied again at now2 to a flow it had declined, it leaves
\* now2 + expire_sec * cycles_per_sec, never the expiry it held extended by
\* the duration (the two differ unless now2 is the expiry it held).
C13_IdempotentDecline ==
    (JustApplied /\ cmd.policy.state = "GK_DECLINED") =>
        /\ Applied.state = "GK_DECLINED"
        /\ Applied.expire_at =
              Add64(cmd.now, Mul64(cycles_per_sec, cmd.policy.expire_sec))
        /\ (/\ ~cmd.created
            /\ Previous.state = "GK_DECLINED"
            /\ Previous.expire_at # cmd.now) =>
              Applied.expire_at #
                  Add64(Previous.expire_at,
                        Mul64(cycles_per_sec, cmd.policy.expire_sec))

\* The decision of 2 s, applied at 0 s, is applied again at 1 s: the entry
\* expires at 3 s, not at 4 s.
C13_Witness ==
    /\ JustApplied
    /\ ~cmd.created
    /\ cmd.policy.state = "GK_DECLINED"
    /\ cmd.policy.expire_sec = 2
    /\ Previous.state = "GK_DECLINED"
    /\ Previous.expire_at = Mul64(cycles_per_sec, 2)
    /\ cmd.now = cycles_per_sec
    /\ Applied.expire_at = Mul64(cycles_per_sec, 3)


\* The command carried a decision of a state add_ggu_policy knows.
Decided == cmd.valid /\ cmd.policy.state \in {"GK_GRANTED", "GK_DECLINED"}

\* The flow of the command had an entry before the command.
HadEntry == cmd.ht0[cmd.policy.flow] >= 0

\* The table had no free slot before the command.
WasFull == Cardinality(KeysIn(cmd.ht0)) >= flow_ht_size

\* The entries other than the one of the command are as before the command.
OthersKept == \A s \in Slots : s # cmd.slot => fe[s] = cmd.fe0[s]

\* The entry the decision leaves for the flow of the command.
Installed ==
    apply_policy([ZeroEntry EXCEPT !.flow = cmd.policy.flow], cmd.policy,
                 cmd.now)

\* The command inserted the key of its flow at a slot that was free and left
\* there the entry of its decision.
InsertedByCmd ==
    /\ cmd.created
    /\ cmd.slot \in Slots
    /\ \A f \in KeysIn(cmd.ht0) : cmd.ht0[f] # cmd.slot
    /\ ht = [cmd.ht0 EXCEPT ![cmd.policy.flow] = cmd.slot]
    /\ Applied = Installed
    /\ OthersKept

\* The command left the keys alone and left the entry of its decision at
\* the slot the flow had.
AppliedInPlace ==
    /\ ~cmd.created
    /\ cmd.slot = cmd.ht0[cmd.policy.flow]
    /\ ht = cmd.ht0
    /\ Applied = Installed
    /\ OthersKept

\* out is the first packet of the flow of the command classified since the
\* command.
FirstSince ==
    cmd.valid /\ cmd.slot >= 0 /\ cmd.pkts = 1 /\ out.valid
        /\ out.flow = cmd.policy.flow

\* The first packet goes through the function of the installed state, on
\* the entry the command left.
ByInstalledState ==
    /\ ~out.created
    /\ out.slot = cmd.slot
    /\ out.before = Installed
    /\ out.path = cmd.policy.state

\* C14 as claimed: a POLICY_ADD for a flow without an entry inserts an
\* entry and applies the decision, the first packet of the flow is then
\* budgeted as GRANTED or dropped as DECLINED and is no new request; for a
\* flow with an entry the decision is applied to that entry and the set of
\* keys is as before.
C14_PolicyInstallClaimed ==
    /\ (Decided /\ cmd.fresh /\ ~HadEntry) => InsertedByCmd
    /\ (Decided /\ cmd.fresh /\ HadEntry) => AppliedInPlace
    /\ (Decided /\ FirstSince) =>
          /\ ByInstalledState
          /\ ~out.req
          /\ cmd.policy.state = "GK_GRANTED" =>
                \/ out.encap /\ out.dscp \in {PRIORITY_GRANTED, PRIORITY_RENEW_CAP}
                \/ out.dropped
          /\ cmd.policy.state = "GK_DECLINED" => out.dropped

\* C14: a POLICY_ADD for a flow without an entry inserts an entry and
\* applies the decision unless the table is full, and then the command
\* changes nothing; for a flow with an entry the decision is applied to
\* that entry and the set of keys is as before.  The first packet of the
\* flow after the command goes through the function of the installed state
\* on the entry the command left and creates no entry; while the decision
\* has not expired it is budgeted as GRANTED or dropped as DECLINED and is
\* no request.
C14_PolicyInstall ==
    /\ (Decided /\ cmd.fresh /\ ~HadEntry /\ ~WasFull) => InsertedByCmd
    /\ (Decided /\ cmd.fresh /\ ~HadEntry /\ WasFull) =>
          /\ cmd.slot = -1
          /\ ht = cmd.ht0
          /\ fe = cmd.fe0
    /\ (Decided /\ cmd.fresh /\ HadEntry) => AppliedInPlace
    /\ (Decided /\ FirstSince) =>
          /\ ByInstalledState
          /\ (/\ cmd.policy.state = "GK_GRANTED"
              /\ Lt64(out.now, Installed.cap_expire_at)) =>
                /\ ~out.req
                /\ \/ out.encap /\ out.dscp \in {PRIORITY_GRANTED, PRIORITY_RENEW_CAP}
                   \/ out.dropped
          /\ (/\ cmd.policy.state = "GK_DECLINED"
              /\ Lt64(out.now, Installed.expire_at)) =>
                /\ ~out.req
                /\ out.dropped

\* A grant arrives before the first packet of flow A; the packet is sent as
\* granted traffic out of the budget of the grant.
C14_Witness ==
    /\ FirstSince
    /\ cmd.created
    /\ cmd.policy.state = "GK_GRANTED"
    /\ out.flow = "A"
    /\ out.before = Installed
    /\ ~out.created /\ ~out.req
    /\ out.encap /\ out.dscp = PRIORITY_GRANTED
    /\ After.budget_byte = 10 * 1024 - 2000


\* C15: a POLICY_ADD whose state is neither GK_GRANTED nor GK_DECLINED
\* leaves the keys of the flow table and every flow entry as they were
\* before the command, whether or not its flow had an entry.
C15_UnknownStateIgnored ==
    (cmd.valid /\ cmd.fresh /\ ~Decided) =>
        /\ KeysIn(ht) = KeysIn(cmd.ht0)
        /\ ht = cmd.ht0
        /\ fe = cmd.fe0


(***************************************************************************)
(* SpecRss: get_responsible_gk_mailbox (lines 796-837) on the redirection  *)
(* table gk_setup_rss read back from the NIC.  The table has reta_size     *)
(* entries; its content repeats a pattern of RetaPeriod queue ids, each    *)
(* any RX queue of the front port.  A flow is given by the value of        *)
(* rss_ip_flow_hf on its key.  The mailbox returned is given by the index  *)
(* block_idx of its instance; -1 is the address &instances[-1].mb, which   *)
(* lies before the array of the instances.                                 *)
(***************************************************************************)
\* gk_conf->num_lcores
num_lcores == 2

\* The RX queues of the front port: one more than the GK instances have.
QueueIds == 0 .. num_lcores

reta_size == 128

RTE_RETA_GROUP_SIZE == 64

RetaPeriod == 3

RssHashes == {0, 1, 2, 63, 64, 65, 127, 128, 129, 130, 1000}

GkIdle ==
    /\ tsc = U64(0)
    /\ ht = EmptyHash
    /\ fe = EmptyEntries
    /\ out = NoOut
    /\ pc = "rx"
    /\ rx_bufs = <<>>
    /\ fates = <<>>
    /\ tx_bufs = <<>>
    /\ mb = <<>>
    /\ gk_cmds = <<>>
    /\ cmd = NoCmd

\* The assignments of distinct RX queues to the instances.
QueueAssignments ==
    {q \in [0 .. num_lcores - 1 -> QueueIds] :
        \A i, j \in 0 .. num_lcores - 1 : i # j => q[i] # q[j]}

\* reta_conf[idx].reta[shift] of the table t.
RetaEntry(t, idx, shift) == t[idx * RTE_RETA_GROUP_SIZE + shift]

\* The instances whose front RX queue is queue_id.
Matching(queues, queue_id) ==
    {i \in DOMAIN queues : queues[i] = queue_id}

get_responsible_gk_mailbox(hash, t, queues) ==
    LET rss_hash_val == hash % reta_size
        idx == rss_hash_val \div RTE_RETA_GROUP_SIZE
        shift == rss_hash_val % RTE_RETA_GROUP_SIZE
        queue_id == RetaEntry(t, idx, shift)
        found == Matching(queues, queue_id)
    IN  [valid |-> TRUE, hash |-> hash, queue_id |-> queue_id,
         block_idx |-> IF found = {} THEN -1
                       ELSE CHOOSE i \in found : \A j \in found : i <= j]

InitRss ==
    /\ GkIdle
    /\ LlsIdle
    /\ AuxIdle
    /\ rx_queue_front \in QueueAssignments
    /\ \E pattern \in [0 .. RetaPeriod - 1 -> QueueIds] :
          reta = [i \in 0 .. reta_size - 1 |-> pattern[i % RetaPeriod]]
    /\ mbx = NoMbx

GetMailbox ==
    /\ \E hash \in RssHashes :
          mbx' = get_responsible_gk_mailbox(hash, reta, rx_queue_front)
    /\ UNCHANGED <<reta, rx_queue_front, gk_vars, lls_vars, aux_vars>>

NextRss == GetMailbox

SpecRss == InitRss /\ [][NextRss]_vars

\* The RX queue the NIC steers a packet of the flow with this hash to.
SteeredTo(hash) == reta[hash % 128]

\* C16: get_responsible_gk_mailbox returns the mailbox of a configured GK
\* instance, the one whose front RX queue is the entry of the redirection
\* table at index (RSS hash of the key) mod 128, for every content of the
\* table.
C16_ResponsibleMailbox ==
    mbx.valid =>
        /\ mbx.block_idx \in 0 .. num_lcores - 1
        /\ rx_queue_front[mbx.block_idx] = SteeredTo(mbx.hash)


(***************************************************************************)
(* Properties of the steps of Spec.                                        *)
(***************************************************************************)
\* The per-packet loop takes a packet of a flow that has no entry while the
\* flow table is full.
TableFullArrival ==
    /\ pc = "pkt"
    /\ rx_bufs # <<>>
    /\ Head(rx_bufs).kind = "ip"
    /\ rte_hash_lookup_with_hash(ht, Head(rx_bufs).flow) < 0
    /\ rte_hash_add_key_with_hash(ht, Head(rx_bufs).flow) < 0
    /\ rx_bufs' = Tail(rx_bufs)

\* The buffer is freed once and is not stored for transmission.
FreedNotSent ==
    /\ fates' = Append(fates, Fate(1, FALSE, FALSE, FALSE))
    /\ tx_bufs' = tx_bufs

\* The step leaves a trace in the state of the worker other than the fate
\* of the buffer: the state a drop counter would be part of.
DropCounted == <<tsc, ht, fe, mb, gk_cmds>>' # <<tsc, ht, fe, mb, gk_cmds>>

\* The worker goes on with the next packet of the burst, or with the
\* transmission when the packet was the last.
NextPacket == pc' = IF Len(rx_bufs) = 1 THEN "tx" ELSE "pkt"

\* C17: a packet of a flow without an entry that arrives when the flow
\* table is full is freed exactly once and not transmitted, a drop counter
\* is incremented, no flow entry and no key changes, and the worker goes on
\* with the next packet of the burst.
C17_TableFullDrop ==
    [][TableFullArrival =>
          /\ FreedNotSent
          /\ DropCounted
          /\ fe' = fe /\ ht' = ht
          /\ NextPacket]_vars


(***************************************************************************)
(* The LLS block (src/lls/main.c).  lls_conf holds what iface_enabled      *)
(* returns for each cache and interface, and net->back_iface_enabled.  A   *)
(* request is [ty, cache]; the arguments the request carries besides its   *)
(* cache are left out.                                                     *)
(***************************************************************************)
LLS_CACHE_SCAN_INTERVAL == 10

\* The requests the mailbox lls_conf.requests holds at most.
LlsMbSize == 2

\* The frames one rte_eth_rx_burst of the LLS block returns at most.
LlsBurst == 1

LlsConfs ==
    {c \in [arp_front : BOOLEAN, arp_back : BOOLEAN, nd_front : BOOLEAN,
            nd_back : BOOLEAN, back_iface_enabled : BOOLEAN] :
        ~c.back_iface_enabled => (~c.arp_back /\ ~c.nd_back)}

\* A faulty variant: ARP counts as enabled only when both interfaces have it.
arp_enabled_both(conf) == conf.arp_front /\ conf.arp_back

arp_enabled(conf) == conf.arp_front \/ conf.arp_back

nd_enabled(conf) == conf.nd_front \/ conf.nd_back

\* lls_req: the request is put in the mailbox unless the mailbox is full.
lls_req(ty, cache, q) ==
    IF Len(q) < LlsMbSize
    THEN [ret |-> 0, requests |-> Append(q, [ty |-> ty, cache |-> cache])]
    ELSE [ret |-> -1, requests |-> q]

\* The body the five functions share: reqs are the requests handed to
\* lls_req.
Submit(enabled, ty, cache, q) ==
    IF enabled
    THEN [ret |-> lls_req(ty, cache, q).ret,
          requests |-> lls_req(ty, cache, q).requests,
          reqs |-> <<[ty |-> ty, cache |-> cache]>>]
    ELSE [ret |-> -1, requests |-> q, reqs |-> <<>>]

hold_arp(conf, q) == Submit(arp_enabled(conf), "LLS_REQ_HOLD", "arp", q)

put_arp(conf, q) == Submit(arp_enabled(conf), "LLS_REQ_PUT", "arp", q)

hold_nd(conf, q) == Submit(nd_enabled(conf), "LLS_REQ_HOLD", "nd", q)

put_nd(conf, q) == Submit(nd_enabled(conf), "LLS_REQ_PUT", "nd", q)

submit_nd(conf, q) == Submit(nd_enabled(conf), "LLS_REQ_ND", "none", q)

\* The caches lls_scan goes through.
lls_scan(conf) ==
    (IF arp_enabled(conf) THEN {"arp"} ELSE {})
        \cup (IF nd_enabled(conf) THEN {"nd"} ELSE {})

(***************************************************************************)
(* Frames.  d_addr is the destination MAC, named by the address of the     *)
(* interface it equals; parsed tells whether extract_packet_info succeeds; *)
(* len_ok whether the length is at least ND_NEIGH_PKT_MIN_LEN; ip_dst is   *)
(* the IPv6 destination, named by the address of the interface it equals.  *)
(***************************************************************************)
MacAddrs ==
    {"broadcast", "eth_addr", "eth_mc_addr", "ll_eth_mc_addr", "other"}

NoL3 ==
    [parsed |-> FALSE, len_ok |-> FALSE, next_hdr |-> "none",
     icmp_type |-> "none", ip_dst |-> "none"]

Ip6Frames ==
    [d_addr : MacAddrs, ether_type : {"IPv6"}, parsed : {TRUE},
     len_ok : BOOLEAN, next_hdr : {"ICMPV6", "TCP"},
     icmp_type : {"ND_NEIGHBOR_SOLICITATION", "ND_NEIGHBOR_ADVERTISEMENT",
                  "ECHO"},
     ip_dst : {"ll_ip6_addr", "ip6_mc_addr", "other"}]

LlsFrames ==
    {[d_addr |-> d, ether_type |-> e] @@ NoL3 :
        d \in MacAddrs, e \in {"ARP", "IPv4", "IPv6"}}
        \cup Ip6Frames

LlsBursts == UNION {[1 .. n -> LlsFrames] : n \in 0 .. LlsBurst}

\* No frame arrives.
NoBursts == {<<>>}

\* The values process_arp and process_nd return.
HandlerResults == {0, -1}

\* A faulty variant: the type of the ICMPv6 message is not looked at.
pkt_is_nd_any_type(f) ==
    /\ f.len_ok
    /\ f.ether_type = "IPv6"
    /\ f.next_hdr = "ICMPV6"
    /\ f.ip_dst \in {"ll_ip6_addr", "ip6_addr", "ip6_mc_addr",
                     "ll_ip6_mc_addr"}

pkt_is_nd(f) ==
    /\ f.len_ok
    /\ f.ether_type = "IPv6"
    /\ f.next_hdr = "ICMPV6"
    /\ f.icmp_type \in {"ND_NEIGHBOR_SOLICITATION",
                        "ND_NEIGHBOR_ADVERTISEMENT"}
    /\ f.ip_dst \in {"ll_ip6_addr", "ip6_addr", "ip6_mc_addr",
                     "ll_ip6_mc_addr"}

\* What the body of the loop of process_pkts does with one frame: the
\* handler it calls, with the value res the handler returns, and the number
\* of times it frees the buffer.
Handled(iface, f, handler, res) ==
    [iface |-> iface, frame |-> f, handler |-> handler,
     freed |-> IF handler = "none" \/ res = -1 THEN 1 ELSE 0]

process_frame(iface, f, res) ==
    IF f.d_addr \notin {"broadcast", "eth_mc_addr", "ll_eth_mc_addr",
                        "eth_addr"}
    THEN Handled(iface, f, "none", 0)
    ELSE IF f.ether_type = "ARP"
    THEN Handled(iface, f, "process_arp", res)
    ELSE IF f.ether_type = "IPv6" /\ iface = "back" /\ f.parsed /\ pkt_is_nd(f)
    THEN Handled(iface, f, "process_nd", res)
    ELSE Handled(iface, f, "none", 0)

process_pkts(iface, burst, res) ==
    [i \in DOMAIN burst |-> process_frame(iface, burst[i], res[i])]

(***************************************************************************)
(* The loop of lls_proc (lines 320-343):                                   *)
(*   "front" at process_pkts of the front interface;                       *)
(*   "back"  at process_pkts of the back interface;                        *)
(*   "reqs"  at lls_process_reqs;                                          *)
(*   "timer" at rte_timer_manage.                                          *)
(* timer is the time left, in seconds, until lls_conf.timer expires; the   *)
(* timer is periodic, so that rte_timer_manage sets it to the interval     *)
(* again when it runs lls_scan.                                            *)
(***************************************************************************)
InitLls ==
    /\ GkIdle
    /\ RssIdle
    /\ AuxIdle
    /\ lls_conf \in LlsConfs
    /\ lls_pc = "front"
    /\ requests = <<>>
    /\ timer = LLS_CACHE_SCAN_INTERVAL
    /\ scanned = {}
    /\ lls_out = <<>>
    /\ lls_call = NoLlsCall

RxFront(bursts) ==
    /\ lls_pc = "front"
    /\ \E burst \in bursts :
       \E res \in [DOMAIN burst -> HandlerResults] :
          lls_out' = process_pkts("front", burst, res)
    /\ lls_pc' = IF lls_conf.back_iface_enabled THEN "back" ELSE "reqs"
    /\ UNCHANGED <<lls_conf, requests, timer, scanned, lls_call>>
    /\ UNCHANGED <<gk_vars, rss_vars, aux_vars>>

RxBack(bursts) ==
    /\ lls_pc = "back"
    /\ \E burst \in bursts :
       \E res \in [DOMAIN burst -> HandlerResults] :
          lls_out' = process_pkts("back", burst, res)
    /\ lls_pc' = "reqs"
    /\ UNCHANGED <<lls_conf, requests, timer, scanned, lls_call>>
    /\ UNCHANGED <<gk_vars, rss_vars, aux_vars>>

\* lls_process_reqs takes the requests out of the mailbox and returns their
\* number.
ProcessReqs ==
    /\ lls_pc = "reqs"
    /\ requests' = <<>>
    /\ lls_pc' = IF Len(requests) = 0 THEN "timer" ELSE "front"
    /\ UNCHANGED <<lls_conf, timer, scanned, lls_out, lls_call>>
    /\ UNCHANGED <<gk_vars, rss_vars, aux_vars>>

TimerManage ==
    /\ lls_pc = "timer"
    /\ IF timer = 0
       THEN /\ scanned' = lls_scan(lls_conf)
            /\ timer' = LLS_CACHE_SCAN_INTERVAL
       ELSE UNCHANGED <<scanned, timer>>
    /\ lls_pc' = "front"
    /\ UNCHANGED <<lls_conf, requests, lls_out, lls_call>>
    /\ UNCHANGED <<gk_vars, rss_vars, aux_vars>>

\* One second passes.
Tick ==
    /\ timer > 0
    /\ timer' = timer - 1
    /\ UNCHANGED <<lls_conf, lls_pc, requests, scanned, lls_out, lls_call>>
    /\ UNCHANGED <<gk_vars, rss_vars, aux_vars>>

\* The record of a call of fn, one of the five functions, on the mailbox q.
CallRecord(fn, r, q) ==
    [valid |-> TRUE, fn |-> fn, ret |-> r.ret, reqs |-> r.reqs, before |-> q,
     after |-> r.requests]

HoldArp ==
    /\ requests' = hold_arp(lls_conf, requests).requests
    /\ lls_call' = CallRecord("hold_arp", hold_arp(lls_conf, requests), requests)
    /\ UNCHANGED <<lls_conf, lls_pc, timer, scanned, lls_out>>
    /\ UNCHANGED <<gk_vars, rss_vars, aux_vars>>

PutArp ==
    /\ requests' = put_arp(lls_conf, requests).requests
    /\ lls_call' = CallRecord("put_arp", put_arp(lls_conf, requests), requests)
    /\ UNCHANGED <<lls_conf, lls_pc, timer, scanned, lls_out>>
    /\ UNCHANGED <<gk_vars, rss_vars, aux_vars>>

HoldNd ==
    /\ requests' = hold_nd(lls_conf, requests).requests
    /\ lls_call' = CallRecord("hold_nd", hold_nd(lls_conf, requests), requests)
    /\ UNCHANGED <<lls_conf, lls_pc, timer, scanned, lls_out>>
    /\ UNCHANGED <<gk_vars, rss_vars, aux_vars>>

PutNd ==
    /\ requests' = put_nd(lls_conf, requests).requests
    /\ lls_call' = CallRecord("put_nd", put_nd(lls_conf, requests), requests)
    /\ UNCHANGED <<lls_conf, lls_pc, timer, scanned, lls_out>>
    /\ UNCHANGED <<gk_vars, rss_vars, aux_vars>>

SubmitNd ==
    /\ requests' = submit_nd(lls_conf, requests).requests
    /\ lls_call' = CallRecord("submit_nd", submit_nd(lls_conf, requests), requests)
    /\ UNCHANGED <<lls_conf, lls_pc, timer, scanned, lls_out>>
    /\ UNCHANGED <<gk_vars, rss_vars, aux_vars>>

\* Another block hands a request to lls_req through one of the five
\* functions.
Request ==
    /\ \E r \in {hold_arp(lls_conf, requests), put_arp(lls_conf, requests),
                  hold_nd(lls_conf, requests), put_nd(lls_conf, requests),
                  submit_nd(lls_conf, requests)} :
          /\ r.reqs # <<>>
          /\ requests' = r.requests
    /\ UNCHANGED <<lls_conf, lls_pc, timer, scanned, lls_out, lls_call>>
    /\ UNCHANGED <<gk_vars, rss_vars, aux_vars>>

(***************************************************************************)
(* SpecLlsApi: the five functions, called in any order while lls_proc      *)
(* runs and no frame arrives.                                              *)
(***************************************************************************)
NextLlsApi ==
    \/ RxFront(NoBursts)
    \/ RxBack(NoBursts)
    \/ ProcessReqs
    \/ TimerManage
    \/ HoldArp
    \/ PutArp
    \/ HoldNd
    \/ PutNd
    \/ SubmitNd

SpecLlsApi == InitLls /\ [][NextLlsApi]_vars

(***************************************************************************)
(* SpecLlsRx: lls_proc with frames arriving on both interfaces, no request *)
(* and no time passing.                                                    *)
(***************************************************************************)
NextLlsRx ==
    \/ RxFront(LlsBursts)
    \/ RxBack(LlsBursts)
    \/ ProcessReqs
    \/ TimerManage

SpecLlsRx == InitLls /\ [][NextLlsRx]_vars

(***************************************************************************)
(* SpecLlsTimer: lls_proc while time passes and other blocks hand in       *)
(* requests, no frame arriving.  The loop of lls_proc never blocks: the    *)
(* worker always takes its next step.  Nothing is assumed of the clock or  *)
(* of the other blocks.                                                    *)
(***************************************************************************)
LlsLoop ==
    \/ RxFront(NoBursts)
    \/ RxBack(NoBursts)
    \/ ProcessReqs
    \/ TimerManage

NextLlsTimer ==
    \/ RxFront(NoBursts)
    \/ RxBack(NoBursts)
    \/ ProcessReqs
    \/ TimerManage
    \/ Tick
    \/ Request

SpecLlsTimer == InitLls /\ [][NextLlsTimer]_vars /\ WF_vars(LlsLoop)


\* The period of the scan has elapsed and lls_scan has not run since.
Elapsed == timer = 0

\* rte_timer_manage has run lls_scan, on every cache that is enabled, and
\* no time has passed since.
ScanFired == timer = LLS_CACHE_SCAN_INTERVAL /\ scanned = lls_scan(lls_conf)

\* C18: whenever the 10 s of the period of the cache scan have elapsed,
\* the worker eventually advances the timer wheel and the scan of every
\* enabled cache fires, whatever requests arrive in the mailbox.
C18_ScanEventually == Elapsed ~> ScanFired


\* The destination MAC is the broadcast address, the address of the
\* interface or one of its multicast addresses.
ForUs(f) ==
    f.d_addr \in {"broadcast", "eth_addr", "eth_mc_addr", "ll_eth_mc_addr"}

\* The frame is an IPv6 packet that parses, long enough for a neighbor
\* message, with next header ICMPv6, of type neighbor solicitation or
\* advertisement, sent to an address of the interface.
IsNd(f) ==
    /\ f.ether_type = "IPv6"
    /\ f.parsed
    /\ f.len_ok
    /\ f.next_hdr = "ICMPV6"
    /\ f.icmp_type \in {"ND_NEIGHBOR_SOLICITATION",
                        "ND_NEIGHBOR_ADVERTISEMENT"}
    /\ f.ip_dst # "other"

\* The frame was freed and given to no handler.
JustDropped(o) == o.handler = "none" /\ o.freed = 1

\* C19 as claimed: on either interface a frame not for the interface is
\* dropped, an ARP frame goes to process_arp, an IPv6 frame that satisfies
\* is_nd goes to process_nd, every other frame is dropped.
C19_DispatchClaimed ==
    \A i \in DOMAIN lls_out :
        LET o == lls_out[i]
        IN  CASE ~ForUs(o.frame) -> JustDropped(o)
              [] ForUs(o.frame) /\ o.frame.ether_type = "ARP" ->
                    o.handler = "process_arp"
              [] ForUs(o.frame) /\ IsNd(o.frame) -> o.handler = "process_nd"
              [] OTHER -> JustDropped(o)

\* C19: on either interface a frame not for the interface is dropped and
\* an ARP frame goes to process_arp; an IPv6 frame that satisfies is_nd
\* goes to process_nd on the back interface only; every other frame, and
\* so every IPv6 frame on the front interface, is dropped.  No frame is
\* freed twice, and the back interface is served only when it is enabled.
C19_Dispatch ==
    \A i \in DOMAIN lls_out :
        LET o == lls_out[i]
        IN  /\ o.iface = "back" => lls_conf.back_iface_enabled
            /\ o.freed \in {0, 1}
            /\ CASE ~ForUs(o.frame) -> JustDropped(o)
                 [] ForUs(o.frame) /\ o.frame.ether_type = "ARP" ->
                       o.handler = "process_arp"
                 [] ForUs(o.frame) /\ IsNd(o.frame) /\ o.iface = "back" ->
                       o.handler = "process_nd"
                 [] OTHER -> JustDropped(o)

\* A neighbor solicitation for the back interface is given to process_nd,
\* which answers it.
C19_Witness ==
    /\ lls_out # <<>>
    /\ lls_out[1].iface = "back"
    /\ lls_out[1].frame.d_addr = "ll_eth_mc_addr"
    /\ lls_out[1].frame.icmp_type = "ND_NEIGHBOR_SOLICITATION"
    /\ lls_out[1].handler = "process_nd"
    /\ lls_out[1].freed = 0


\* The cache a function works on, and the type of the request it submits.
FnCache(fn) ==
    CASE fn \in {"hold_arp", "put_arp"} -> "arp"
      [] fn \in {"hold_nd", "put_nd"} -> "nd"
      [] fn = "submit_nd" -> "none"

FnType(fn) ==
    CASE fn \in {"hold_arp", "hold_nd"} -> "LLS_REQ_HOLD"
      [] fn \in {"put_arp", "put_nd"} -> "LLS_REQ_PUT"
      [] fn = "submit_nd" -> "LLS_REQ_ND"

\* The family of the function is enabled on the front or on the back
\* interface.
FamilyEnabled(fn) ==
    IF fn \in {"hold_arp", "put_arp"}
    THEN lls_conf.arp_front \/ lls_conf.arp_back
    ELSE lls_conf.nd_front \/ lls_conf.nd_back

\* C20: with the family enabled on neither interface each of hold_arp,
\* put_arp, hold_nd, put_nd and submit_nd returns a negative value and
\* hands no request to lls_req, the mailbox staying as it was; with the
\* family enabled on an interface it hands exactly one request of its type
\* and cache to lls_req and returns what lls_req returned: 0 with the
\* request last in the mailbox, or a negative value with the mailbox as it
\* was.
C20_ServiceEnabled ==
    lls_call.valid =>
        IF FamilyEnabled(lls_call.fn)
        THEN /\ lls_call.reqs = <<[ty |-> FnType(lls_call.fn),
                                   cache |-> FnCache(lls_call.fn)]>>
             /\ \/ /\ lls_call.ret = 0
                   /\ lls_call.after =
                         Append(lls_call.before, lls_call.reqs[1])
                \/ /\ lls_call.ret < 0
                   /\ lls_call.after = lls_call.before
        ELSE /\ lls_call.ret < 0
             /\ lls_call.reqs = <<>>
             /\ lls_call.after = lls_call.before

\* ARP is enabled on the front interface only; hold_arp puts its request in
\* the empty mailbox and returns 0.
C20_Witness ==
    /\ lls_call.valid
    /\ lls_call.fn = "hold_arp"
    /\ lls_conf.arp_front /\ ~lls_conf.arp_back
    /\ lls_call.before = <<>>
    /\ lls_call.ret = 0
    /\ lls_call.after = <<[ty |-> "LLS_REQ_HOLD", cache |-> "arp"]>>


(***************************************************************************)
(* Further properties of SpecFlow.                                         *)
(***************************************************************************)
\* The last packet went through gk_process_granted before the capability
\* expired.
GrantedInForce ==
    /\ out.valid
    /\ out.path = "GK_GRANTED"
    /\ Lt64(out.now, out.before.cap_expire_at)

\* The packet found the second of the budget over.
BudgetDue == Geq64(out.now, out.before.budget_renew_at)

\* The budget the packet is tested against.
BudgetAtTest ==
    IF BudgetDue THEN out.before.tx_rate_kb_cycle * 1024
    ELSE out.before.budget_byte

C26_StrictComparison ==
    (out.valid /\ out.req /\ out.prio >= out.req_in.last_priority) =>
        /\ ~out.override
        /\ out.encap
        /\ out.dscp = Min(out.prio + 3, 63)
        /\ After.last_priority = out.prio
        /\ After.allowance = 7

\* A packet of the priority of the packet before it, on an entry that had
\* used some of its allowance.
C26_Witness ==
    /\ out.valid /\ out.req
    /\ out.prio = out.req_in.last_priority
    /\ out.req_in.allowance < 7
    /\ After.allowance = 7
    /\ After.last_priority = out.req_in.last_priority

C26_WitnessAbove ==
    /\ out.valid /\ out.req
    /\ out.prio > out.req_in.last_priority
    /\ out.req_in.allowance < 7
    /\ After.allowance = 7


\* The states a policy decision gives a flow.
DecidedStates == {"GK_GRANTED", "GK_DECLINED"}

\* The step moved the entry of slot s from state a to state b.
Moved(s, a, b) == fe[s].state = a /\ fe'[s].state = b

\* The step classified a packet: FlowPacket records it in out.
PacketStep == out'.valid

\* The step applied a policy command: FlowPolicy clears out, and a packet
\* that is not classified leaves the flow table as it is.
PolicyStep == ~out'.valid /\ (ht' # ht \/ fe' # fe)

\* C28: a flow entry gets the state GRANTED or DECLINED only in the step
\* that applies a GGU_POLICY_ADD command; the step of a packet never moves an
\* entry into GRANTED or DECLINED, and the only changes of state it makes
\* are GRANTED to REQUEST, at now >= cap_expire_at, and DECLINED to REQUEST,
\* at now >= expire_at.
C28_StateChanges ==
    [][\A s \in Slots :
        fe'[s].state # fe[s].state =>
            IF fe'[s].state \in DecidedStates
            THEN PolicyStep
            ELSE /\ PacketStep
                 /\ out'.slot = s /\ out'.reinit
                 /\ \/ /\ Moved(s, "GK_GRANTED", "GK_REQUEST")
                       /\ Geq64(out'.now, fe[s].cap_expire_at)
                    \/ /\ Moved(s, "GK_DECLINED", "GK_REQUEST")
                       /\ Geq64(out'.now, fe[s].expire_at)]_vars

\* A packet took a DECLINED flow back to REQUEST.
C28_Witness ==
    /\ out.valid
    /\ out.before.state = "GK_DECLINED"
    /\ Geq64(out.now, out.before.expire_at)
    /\ After.state = "GK_REQUEST"


(***************************************************************************)
(* Properties of SpecRenewal.                                              *)
(***************************************************************************)
\* The last packet passed the budget test of gk_process_granted.
GrantedSent == GrantedInForce /\ out.encap

RenewalDue == Geq64(out.now, out.before.send_next_renewal_at)

\* The packets i < j of renewals are j - i renewal steps apart or more.
Spaced(i, j) ==
    Leq64(Mul64(renewals[i].step, j - i),
          Sub64(renewals[j].at, renewals[i].at))

\* C23: a GRANTED packet that passes the budget test is marked DSCP 2
\* exactly when now >= send_next_renewal_at, and then send_next_renewal_at
\* becomes now + renewal_step_cycle; otherwise it is marked DSCP 1 and
\* send_next_renewal_at stays.  With no policy command in between, two
\* DSCP-2 packets in a row are renewal_step_cycle cycles apart or more, and
\* the k + 1 DSCP-2 packets from the i-th to the (i + k)-th span k renewal
\* steps or more, so that an interval of T cycles holds at most
\* floor(T / renewal_step_cycle) + 1 of them (renewal_step_cycle > 0).
C23_RenewalCadence ==
    /\ GrantedSent =>
          IF RenewalDue
          THEN /\ out.dscp = PRIORITY_RENEW_CAP
               /\ After.send_next_renewal_at =
                     Add64(out.now, out.before.renewal_step_cycle)
          ELSE /\ out.dscp = PRIORITY_GRANTED
               /\ After.send_next_renewal_at =
                     out.before.send_next_renewal_at
    /\ \A i \in DOMAIN renewals : \A j \in DOMAIN renewals :
          i < j => Spaced(i, j)

\* Three DSCP-2 packets of one grant with a step of 200 ms, the last one
\* late: 500 ms or more after the first.
C23_Witness ==
    /\ Len(renewals) = 3
    /\ renewals[1].step = Mul64(cycles_per_ms, 200)
    /\ Lt64(Add64(renewals[2].at, Mul64(cycles_per_ms, 200)), renewals[3].at)
    /\ GrantedSent
    /\ RenewalDue


(***************************************************************************)
(* Further properties of SpecPolicy.                                       *)
(***************************************************************************)
\* Every key of the table ht_ has a slot of its own, and the entry of the
\* slot in tab holds the key.
OneEntryPerKey(ht_, tab) ==
    /\ \A k \in KeysIn(ht_) : ht_[k] \in Slots /\ tab[ht_[k]].flow = k
    /\ \A k \in KeysIn(ht_) : \A l \in KeysIn(ht_) :
          ht_[k] = ht_[l] => k = l

\* No slot is left: rte_hash_add_key_with_hash fails for every new key.
TableFull == Cardinality(KeysIn(ht)) >= flow_ht_size

Is(p, ev) == mb_log[p].ev = ev

\* The events at the positions p and q are about one entry.
SameEntry(p, q) == mb_log[p].id = mb_log[q].id

\* The number of entries the last mb_dequeue_burst took.
LastBurst == Len(Events("deq"))

\* C27: an iteration of the loop of gk_proc takes at most GK_CMD_BURST_SIZE
\* = 32 commands off the mailbox; the commands are applied in the order of
\* their dequeue; the entry of each is released once, after the command was
\* applied and never before, and is not read after its release; when the
\* iteration is over every entry it took has been released.
C27_MailboxDrain ==
    /\ Len(gk_cmds) <= GK_CMD_BURST_SIZE
    /\ LastBurst <= GK_CMD_BURST_SIZE
    /\ \A i \in DOMAIN Events("read") :
          Events("read")[i].id = Events("deq")[i].id
    /\ \A p \in DOMAIN mb_log : \A q \in DOMAIN mb_log :
          /\ (Is(p, "free") /\ Is(q, "free") /\ SameEntry(p, q)) => p = q
          /\ (Is(p, "free") /\ Is(q, "read") /\ SameEntry(p, q)) => q < p
    /\ \A p \in DOMAIN mb_log :
          Is(p, "free") => \E q \in 1 .. (p - 1) :
                              Is(q, "read") /\ SameEntry(p, q)
    /\ pc \in {"rx", "deq"} =>
          /\ gk_cmds = <<>>
          /\ Len(Events("free")) = Len(Events("deq"))

\* A burst of 32 commands was taken off a mailbox of 33 or more and has been
\* applied: one command is left for the next iteration.
C27_Witness ==
    /\ pc = "rx"
    /\ Len(Events("free")) = GK_CMD_BURST_SIZE
    /\ Len(Events("read")) = GK_CMD_BURST_SIZE
    /\ mb # <<>>
    /\ Head(mb).id = GK_CMD_BURST_SIZE + 1


(***************************************************************************)
(* SpecLife: the GK block from stage 1 to the exit of its workers.         *)
(* run_gk registers gk_stage1, gk_stage2 and one launch of gk_proc per     *)
(* lcore and sets ref_cnt to 0 (lines 764-793); the launcher then runs the *)
(* stages.  launch.pc is                                                   *)
(*   "register" in run_gk, launch.registered listing the stages registered *)
(*            so far;                                                      *)
(*   "stage1" before gk_stage1 allocates the array of the instances;       *)
(*   "inst"   in the loop of gk_stage1, at the step launch.step of the     *)
(*            instance launch.i;                                           *)
(*   "stage2" before gk_stage2;                                            *)
(*   "stage3" while the workers are started, one lcore after the other;    *)
(*   "run"    once gk_proc has been started on every lcore;                *)
(*   "fail"   after a stage returned launch.ret < 0.                       *)
(* lcore_pc[i] is "launched" when gk_proc starts, "started" before its     *)
(* gk_conf_hold, "loop" in the loop, "left" before its gk_conf_put, "done" *)
(* after it, "crashed" after a fault.                                      *)
(***************************************************************************)
Lcores == 0 .. num_lcores - 1

NullInstance ==
    [ip_flow_hash_table |-> "null", ip_flow_entry_table |-> "null",
     mb |-> "null"]

LiveInstance ==
    [ip_flow_hash_table |-> "live", ip_flow_entry_table |-> "live",
     mb |-> "live"]

\* rte_free, rte_hash_free, destroy_mailbox: a second release of the same
\* memory is a double free.
Release(st) ==
    CASE st = "null" -> "null"
      [] st = "live" -> "freed"
      [] OTHER -> "freed_twice"

\* Lines 651-673.  The pointers are not cleared, so a second run releases
\* everything again.
cleanup_gk(conf) ==
    [conf EXCEPT
        !.inst = [i \in DOMAIN conf.inst |->
                    [ip_flow_hash_table |->
                        Release(conf.inst[i].ip_flow_hash_table),
                     ip_flow_entry_table |->
                        Release(conf.inst[i].ip_flow_entry_table),
                     mb |-> Release(conf.inst[i].mb)]],
        !.instances = Release(@),
        !.conf = Release(@),
        !.cleanups = @ + 1]

\* gk_conf_hold: the atomic increment of ref_cnt.
gk_conf_hold(conf) == [conf EXCEPT !.ref_cnt = @ + 1]

\* Lines 676-686: rte_atomic32_dec_and_test, then cleanup_gk when the
\* counter has reached 0.
gk_conf_put(conf) ==
    IF conf.ref_cnt - 1 = 0
    THEN cleanup_gk([conf EXCEPT !.ref_cnt = 0])
    ELSE [conf EXCEPT !.ref_cnt = @ - 1]

\* The steps of the body of the loop of gk_stage1 that can fail:
\* get_queue_id for the RX and for the TX queue (lines 706-720), then in
\* setup_gk_instance rte_hash_create, rte_calloc and init_mailbox.
InstanceSteps == <<"rx", "tx", "hash", "table", "mailbox">>

\* What a step that succeeds allocates in the instance.
Allocated(instance, step) ==
    CASE step = "hash" -> [instance EXCEPT !.ip_flow_hash_table = "live"]
      [] step = "table" -> [instance EXCEPT !.ip_flow_entry_table = "live"]
      [] step = "mailbox" -> [instance EXCEPT !.mb = "live"]
      [] OTHER -> instance

\* The stage returns -1 to the launcher; i and step tell where it failed.
Failed(i, step) ==
    [launch EXCEPT !.pc = "fail", !.i = i, !.step = step, !.ret = -1]

\* Lines 764-793 of run_gk: the next of the calls net_launch_at_stage1,
\* launch_at_stage2 and, once per lcore, launch_at_stage3.  When the call
\* fails, pop_n_at_stage3, pop_n_at_stage2 and pop_n_at_stage1 remove what
\* was registered, the last stage first, and run_gk returns the failure;
\* after the last call run_gk sets ref_cnt to 0 and returns 0.
Register ==
    /\ launch.pc = "register"
    /\ \E ok \in BOOLEAN, n \in {Len(launch.registered)} :
        IF ok
        THEN /\ launch' =
                   [launch EXCEPT
                       !.registered =
                           Append(@, IF n = 0 THEN "stage1"
                                     ELSE IF n = 1 THEN "stage2"
                                     ELSE "stage3"),
                       !.pc = IF n + 1 = 2 + num_lcores THEN "stage1"
                              ELSE "register"]
             /\ gk_conf' = IF n + 1 = 2 + num_lcores
                           THEN [gk_conf EXCEPT !.ref_cnt = 0]
                           ELSE gk_conf
        ELSE /\ launch' = [Failed(0, 0) EXCEPT !.registered = <<>>]
             /\ gk_conf' = gk_conf
    /\ UNCHANGED <<renewals, mb_log, exiting, lcore_pc, instances, writer>>
    /\ UNCHANGED <<gk_vars, rss_vars, lls_vars>>

\* Lines 694-697.
Stage1Alloc ==
    /\ launch.pc = "stage1"
    /\ \E ok \in BOOLEAN :
        IF ok
        THEN /\ gk_conf' = [gk_conf EXCEPT
                               !.instances = "live",
                               !.inst = [i \in Lcores |-> NullInstance]]
             /\ launch' = [launch EXCEPT !.pc = "inst"]
        ELSE /\ gk_conf' = gk_conf
             /\ launch' = Failed(0, 0)
    /\ UNCHANGED <<renewals, mb_log, exiting, lcore_pc, instances, writer>>
    /\ UNCHANGED <<gk_vars, rss_vars, lls_vars>>

\* Lines 699-731: the step launch.step for the instance launch.i.  When
\* get_queue_id fails gk_stage1 returns -1.  When a step of
\* setup_gk_instance fails, setup_gk_instance frees what it had allocated
\* for the instance, the table of flow entries before the hash table, and
\* clears the pointers (lines 378-386); gk_stage1 then calls gk_conf_put
\* and returns -1.
Stage1Step ==
    /\ launch.pc = "inst"
    /\ \E ok \in BOOLEAN :
        IF ok
        THEN /\ gk_conf' = [gk_conf EXCEPT
                               !.inst[launch.i] =
                                   Allocated(@, InstanceSteps[launch.step])]
             /\ launch' =
                   IF launch.step < Len(InstanceSteps)
                   THEN [launch EXCEPT !.step = @ + 1]
                   ELSE IF launch.i + 1 < num_lcores
                   THEN [launch EXCEPT !.i = @ + 1, !.step = 1]
                   ELSE [launch EXCEPT !.pc = "stage2"]
        ELSE /\ gk_conf' =
                   IF InstanceSteps[launch.step] \in {"rx", "tx"}
                   THEN gk_conf
                   ELSE gk_conf_put([gk_conf EXCEPT
                                        !.inst[launch.i] = NullInstance])
             /\ launch' = Failed(launch.i, launch.step)
    /\ UNCHANGED <<renewals, mb_log, exiting, lcore_pc, instances, writer>>
    /\ UNCHANGED <<gk_vars, rss_vars, lls_vars>>

\* Lines 736-741: gk_setup_rss succeeds or fails.
Stage2 ==
    /\ launch.pc = "stage2"
    /\ \E ok \in BOOLEAN :
        launch' = IF ok THEN [launch EXCEPT !.pc = "stage3"]
                  ELSE Failed(num_lcores, 0)
    /\ UNCHANGED <<renewals, mb_log, gk_conf, exiting, lcore_pc, instances, writer>>
    /\ UNCHANGED <<gk_vars, rss_vars, lls_vars>>

\* The launcher starts gk_proc on the next lcore of the block, in the order
\* of the calls of launch_at_stage3 (lines 773-780) of run_gk.
Stage3 ==
    /\ launch.pc = "stage3"
    /\ \E i \in {Cardinality(DOMAIN lcore_pc)} :
        /\ launch' = IF i + 1 = num_lcores
                     THEN [launch EXCEPT !.pc = "run"]
                     ELSE launch
        /\ lcore_pc' = [j \in 0 .. i |->
                           IF j = i THEN "launched" ELSE lcore_pc[j]]
    /\ UNCHANGED <<renewals, mb_log, gk_conf, exiting, instances, writer>>
    /\ UNCHANGED <<gk_vars, rss_vars, lls_vars>>

\* The signal handler sets the flag.
SetExiting ==
    /\ ~exiting
    /\ exiting' = TRUE
    /\ UNCHANGED <<renewals, mb_log, gk_conf, launch, lcore_pc, instances, writer>>
    /\ UNCHANGED <<gk_vars, rss_vars, lls_vars>>

\* Lines 491-500: gk_proc finds its instance and its queues.  Once
\* cleanup_gk has freed the configuration these are reads of freed memory:
\* the worker faults, or goes on with what the memory still holds.
WorkerStart ==
    /\ \E i \in DOMAIN lcore_pc, fault \in BOOLEAN :
        /\ lcore_pc[i] = "launched"
        /\ fault => gk_conf.conf # "live"
        /\ lcore_pc' = [lcore_pc EXCEPT
                           ![i] = IF fault THEN "crashed" ELSE "started"]
    /\ UNCHANGED <<renewals, mb_log, gk_conf, launch, exiting, instances, writer>>
    /\ UNCHANGED <<gk_vars, rss_vars, lls_vars>>

\* Line 503: gk_conf_hold(gk_conf), on freed memory when cleanup_gk has
\* run.
WorkerHold ==
    /\ \E i \in DOMAIN lcore_pc, fault \in BOOLEAN :
        /\ lcore_pc[i] = "started"
        /\ fault => gk_conf.conf # "live"
        /\ IF fault
           THEN /\ lcore_pc' = [lcore_pc EXCEPT ![i] = "crashed"]
                /\ gk_conf' = gk_conf
           ELSE /\ lcore_pc' = [lcore_pc EXCEPT ![i] = "loop"]
                /\ gk_conf' = gk_conf_hold(gk_conf)
    /\ UNCHANGED <<renewals, mb_log, launch, exiting, instances, writer>>
    /\ UNCHANGED <<gk_vars, rss_vars, lls_vars>>

\* Lines 505-637: an iteration of the loop works on the tables and the
\* mailbox of the instance (modelled by Spec).  On an instance that
\* cleanup_gk has freed the worker faults, or goes on with what the memory
\* still holds.  The iteration may have begun before exiting was set.
WorkerIteration ==
    /\ \E i \in DOMAIN lcore_pc, fault \in BOOLEAN :
        /\ lcore_pc[i] = "loop"
        /\ fault => gk_conf.inst[i] # LiveInstance
        /\ lcore_pc' = [lcore_pc EXCEPT
                           ![i] = IF fault THEN "crashed" ELSE "loop"]
    /\ UNCHANGED <<renewals, mb_log, gk_conf, launch, exiting, instances, writer>>
    /\ UNCHANGED <<gk_vars, rss_vars, lls_vars>>

\* Lines 505 and 639-640: the test of the loop finds exiting set.
WorkerLeave ==
    /\ exiting
    /\ \E i \in DOMAIN lcore_pc :
        /\ lcore_pc[i] = "loop"
        /\ lcore_pc' = [lcore_pc EXCEPT ![i] = "left"]
    /\ UNCHANGED <<renewals, mb_log, gk_conf, launch, exiting, instances, writer>>
    /\ UNCHANGED <<gk_vars, rss_vars, lls_vars>>

\* Line 642: gk_proc returns gk_conf_put(gk_conf).
WorkerPut ==
    /\ \E i \in DOMAIN lcore_pc, fault \in BOOLEAN :
        /\ lcore_pc[i] = "left"
        /\ fault => gk_conf.conf # "live"
        /\ IF fault
           THEN /\ lcore_pc' = [lcore_pc EXCEPT ![i] = "crashed"]
                /\ gk_conf' = gk_conf
           ELSE /\ lcore_pc' = [lcore_pc EXCEPT ![i] = "done"]
                /\ gk_conf' = gk_conf_put(gk_conf)
    /\ UNCHANGED <<renewals, mb_log, launch, exiting, instances, writer>>
    /\ UNCHANGED <<gk_vars, rss_vars, lls_vars>>

InitLife ==
    /\ GkIdle
    /\ RssIdle
    /\ LlsIdle
    /\ AuxIdle

NextLife ==
    \/ Register
    \/ Stage1Alloc
    \/ Stage1Step
    \/ Stage2
    \/ Stage3
    \/ SetExiting
    \/ WorkerStart
    \/ WorkerHold
    \/ WorkerIteration
    \/ WorkerLeave
    \/ WorkerPut

SpecLife == InitLife /\ [][NextLife]_vars

(***************************************************************************)
(* Properties of SpecLife.                                                 *)
(***************************************************************************)
\* What the block holds: the array of the instances and, for each instance,
\* its hash table, its table of flow entries and its mailbox.
Held ==
    (IF gk_conf.instances = "live" THEN {"instances"} ELSE {})
    \cup {<<i, "ip_flow_hash_table">> : i \in
            {j \in DOMAIN gk_conf.inst :
                gk_conf.inst[j].ip_flow_hash_table = "live"}}
    \cup {<<i, "ip_flow_entry_table">> : i \in
            {j \in DOMAIN gk_conf.inst :
                gk_conf.inst[j].ip_flow_entry_table = "live"}}
    \cup {<<i, "mb">> : i \in
            {j \in DOMAIN gk_conf.inst : gk_conf.inst[j].mb = "live"}}

\* C21: when a step of the startup of the GK block fails (the queue
\* assignment or setup_gk_instance for an instance in stage 1, the RSS setup
\* of stage 2), the launcher gets a negative status and the block holds
\* nothing of what it had acquired: not the array of the instances, and no
\* hash table, table of flow entries or mailbox of an instance set up before.
C21_StartupUnwinds ==
    launch.pc = "fail" => (launch.ret < 0 /\ Held = {})

\* The workers that have left their loop and called gk_conf_put.
Done == {i \in DOMAIN lcore_pc : lcore_pc[i] = "done"}

\* C24: cleanup_gk runs at most once, and only when every worker that was
\* launched has left its loop and called gk_conf_put.
C24_CleanupAfterAll ==
    /\ gk_conf.cleanups <= 1
    /\ gk_conf.cleanups >= 1 => Done = DOMAIN lcore_pc


(***************************************************************************)
(* SpecWorkers: the GK workers side by side, each on its lcore with the    *)
(* instance get_block_idx gives it, and a producer of policy decisions     *)
(* that enqueues each decision in the mailbox get_responsible_gk_mailbox   *)
(* returns.  The redirection table is as gk_setup_rss sets it up: every    *)
(* entry is the front RX queue of an instance.  The NIC delivers a packet  *)
(* to the RX queue the redirection table has for the RSS hash of its flow. *)
(* writer tells who took the last step.                                    *)
(***************************************************************************)
\* gk_conf->lcores: the lcore of each instance.
GkLcores == [i \in Lcores |-> i + 2]

\* A faulty variant: every worker takes the first instance.
get_block_idx_first(lcores, lcore_id) == 0

\* Lines 313-323.
get_block_idx(lcores, lcore_id) ==
    CHOOSE i \in DOMAIN lcores :
        /\ lcores[i] = lcore_id
        /\ \A j \in DOMAIN lcores : lcores[j] = lcore_id => i <= j

\* rss_ip_flow_hf of the two flows.
FlowHash(f) == IF f = "A" THEN 0 ELSE 1

\* The capacity of each mailbox, scaled down.
WorkersMb == 1

WorkersPolicies == {Declined(2)}

NewInstance == [ht |-> EmptyHash, fe |-> EmptyEntries, mb |-> <<>>]

Worker(lcore) == [kind |-> "worker", lcore |-> lcore]

Producer == [kind |-> "producer", lcore |-> 0]

InitWorkers ==
    /\ GkIdle
    /\ LlsIdle
    /\ renewals = <<>>
    /\ mb_log = <<>>
    /\ gk_conf = NewGkConf
    /\ launch = NotLaunched
    /\ exiting = FALSE
    /\ lcore_pc = [i \in {} |-> "launched"]
    /\ instances = [i \in Lcores |-> NewInstance]
    /\ writer = Nobody
    /\ rx_queue_front = [i \in Lcores |-> i]
    /\ \E pattern \in [0 .. RetaPeriod - 1 -> Lcores] :
          reta = [i \in 0 .. reta_size - 1 |-> pattern[i % RetaPeriod]]
    /\ mbx = NoMbx

\* Lines 523-617 on one lcore, for a packet of its RX queue.
WorkersPacket ==
    /\ \E lcore \in {GkLcores[i] : i \in Lcores}, f \in AllFlows :
       \E block_idx \in {get_block_idx(GkLcores, lcore)} :
       \E r \in {gk_proc_packet(instances[block_idx].ht,
                                instances[block_idx].fe,
                                [kind |-> "ip", flow |-> f,
                                 data_len |-> 2000], tsc, tsc, 0, 0)} :
        /\ reta[FlowHash(f)] = rx_queue_front[block_idx]
        /\ instances' = [instances EXCEPT ![block_idx].ht = r.ht,
                                          ![block_idx].fe = r.fe]
        /\ writer' = Worker(lcore)
    /\ UNCHANGED <<renewals, mb_log, gk_conf, launch, exiting, lcore_pc>>
    /\ UNCHANGED <<gk_vars, rss_vars, lls_vars>>

\* The producer of a decision: get_responsible_gk_mailbox, then the enqueue
\* in the mailbox it returned.
WorkersPolicy ==
    /\ \E f \in AllFlows, d \in WorkersPolicies :
       \E m \in {get_responsible_gk_mailbox(FlowHash(f), reta,
                                            rx_queue_front)} :
        /\ m.block_idx \in Lcores
        /\ Len(instances[m.block_idx].mb) < WorkersMb
        /\ instances' =
              [instances EXCEPT
                  ![m.block_idx].mb =
                      Append(@, [op |-> "GGU_POLICY_ADD",
                                 ggu |-> WithFlow(d, f), age |-> 0])]
        /\ mbx' = m
        /\ writer' = Producer
    /\ UNCHANGED <<renewals, mb_log, gk_conf, launch, exiting, lcore_pc>>
    /\ UNCHANGED <<reta, rx_queue_front, gk_vars, lls_vars>>

\* Lines 630-636 on one lcore, for the oldest command of its mailbox.
WorkersCmd ==
    /\ \E lcore \in {GkLcores[i] : i \in Lcores} :
       \E block_idx \in {get_block_idx(GkLcores, lcore)} :
        /\ instances[block_idx].mb # <<>>
        /\ \E r \in {process_gk_cmd(Head(instances[block_idx].mb),
                                    instances[block_idx].ht,
                                    instances[block_idx].fe, tsc, tsc)} :
              instances' = [instances EXCEPT
                               ![block_idx] = [ht |-> r.ht, fe |-> r.fe,
                                               mb |-> Tail(@.mb)]]
        /\ writer' = Worker(lcore)
    /\ UNCHANGED <<renewals, mb_log, gk_conf, launch, exiting, lcore_pc>>
    /\ UNCHANGED <<gk_vars, rss_vars, lls_vars>>

NextWorkers == WorkersPacket \/ WorkersPolicy \/ WorkersCmd

SpecWorkers == InitWorkers /\ [][NextWorkers]_vars

(***************************************************************************)
(* Properties of SpecWorkers.                                              *)
(***************************************************************************)
\* The step wrote to the flow table or to a flow entry of the instance j.
WroteTables(j) ==
    \/ instances'[j].ht # instances[j].ht
    \/ instances'[j].fe # instances[j].fe

\* C22: with the workers side by side and a producer enqueuing decisions,
\* every write to the flow table or to a flow entry of an instance is made
\* by the worker of that instance, on its own lcore; no other worker and no
\* producer writes to them.
C22_OwnTable ==
    [][\A j \in Lcores : WroteTables(j) => writer' = Worker(GkLcores[j])]_vars

\* Both instances hold an entry, and the second worker has just applied a
\* decision to its own.
C22_Witness ==
    /\ \A j \in Lcores : instances[j].fe[0].flow # NoFlow
    /\ instances[1].fe[0].state = "GK_DECLINED"
    /\ writer = Worker(GkLcores[1])
    /\ mbx.valid

====
